---- MODULE Spec2Model ----
(***************************************************************************)
(* Document preparation and retrieval pipeline of AI_QUIZ.                 *)
(*                                                                         *)
(*   SpecChunk   TextChunker.createChunks (semanticChunking,               *)
(*               optimizeChunkSizes, splitLargeChunk, addMetadata)         *)
(*   SpecSearch  VectorSearchService (Python bridge with mock support) and *)
(*               VectorSearchServiceWrapper: store, search, delete         *)
(*   SpecStore   VectorDatabaseService (Qdrant client): storeChunks in      *)
(*               batches, deleteDocument, searchWithFilters,               *)
(*               getChunksByDocument, running concurrently                 *)
(*   SpecEmbed   the three EmbeddingService classes: the Python bridge     *)
(*               (one request per chunk, Promise.all per batch), the       *)
(*               bridge with mock support, and the OpenAI-backed service   *)
(*                                                                         *)
(* A text is the sequence of its sentence pieces.  A piece is a record     *)
(* [id, w, t, brk]: `id` is its position in the text, `w` the number of    *)
(* whitespace-separated words in it, `t` says whether it ends in one of    *)
(* . ! ? and `brk` what separates it from the piece before it: "none"      *)
(* (plain whitespace, only after a terminated piece), "para" (a blank      *)
(* line) or "header" (a blank line, and the piece starts with a            *)
(* heading-like pattern).  A string of the program is the sequence of its  *)
(* pieces; the separators the program inserts (' ' and '\n\n') are         *)
(* whitespace and change neither the word count nor the sentence split.    *)
(***************************************************************************)
EXTENDS Integers, Sequences, FiniteSets, TLC

\* ------------------------------------------------------------------ bounds
MaxPieces == 3
MaxClock  == 2
MaxEmbChunks == 3
MaxBatchSize == 3
MaxIndex     == 1
MaxStoreRuns == 2
MaxCalls     == 2
MaxUploads   == 2
MaxRequests  == 2
MaxPipeChunks == 3
MaxRawLen    == 4
MaxQuestions == 2
MaxStatusRequests == 8
MaxPollAttempts == 4

WordChoices     == {1, 4}
PageCounts      == {1, 2}
ConfigChoices   ==
  { [maxTokens |-> 4, minTokens |-> 3, overlap |-> 10],
    [maxTokens |-> 8, minTokens |-> 3, overlap |-> 10],
    [maxTokens |-> 8, minTokens |-> 3, overlap |-> 0],
    [maxTokens |-> 8, minTokens |-> 7, overlap |-> 20],
    [maxTokens |-> 4, minTokens |-> 7, overlap |-> 10] }

VARIABLES
  text,                \* createChunks argument: the cleaned text
  pageCount,           \* createChunks argument
  chunkConfig,         \* TextChunker.chunkConfig (Config.CHUNK_CONFIG)
  cpc,                 \* position inside createChunks
  initialChunks,       \* result of semanticChunking
  optimizedChunks,     \* result of optimizeChunkSizes
  chunksWithMetadata,  \* result of addMetadata, the value createChunks returns
  now,                 \* last value read from Date.now()
  runNo,               \* "first" or "second" createChunks call on this input
  firstRun             \* what the first createChunks call returned

chunkVars == <<text, pageCount, chunkConfig, cpc, initialChunks,
               optimizedChunks, chunksWithMetadata, now, runNo, firstRun>>

VARIABLES
  eimpl,               \* which EmbeddingService class is in use
  mockMode,            \* EmbeddingService.mockMode (OPENAI_API_KEY === 'mock')
  batchSize,           \* the batchSize of generateChunkEmbeddings / generateEmbeddings
  echunks,             \* the chunks argument
  equery,              \* the query argument of generateQueryEmbedding
  epc,                 \* position inside the embedding call
  ei,                  \* loop variable i, start of the current batch
  pendingReqs,         \* positions in the batch whose request is in flight
  completionOrder,     \* positions in the batch, in the order the requests completed
  embeddedChunks,      \* chunksWithEmbeddings / embeddedChunks being built
  eresult,             \* what the call returned to its caller
  providerFailed       \* the provider or the subprocess failed during the call

embedVars == <<eimpl, mockMode, batchSize, echunks, equery, epc, ei, pendingReqs,
               completionOrder, embeddedChunks, eresult, providerFailed>>

VARIABLES
  points,              \* the points of the Qdrant collection
  vsMockMode,          \* VectorSearchService.mockMode
  lexicalHits,         \* chunk ids the lexical (BM25) search returns for the query
  lastSearch,          \* the last search call: its arguments and what it returned
  lastWrite            \* per document id, the last store/delete that reported success

searchVars == <<points, vsMockMode, lexicalHits, lastSearch, lastWrite>>

VARIABLES
  storeBatchSize,      \* the batchSize of storeChunks
  writer,              \* the storeChunks call in progress, if any
  runCount,            \* number of storeChunks calls started so far
  latest,              \* per document id, the points of its last completed storeChunks
  storeReport          \* what the last storeChunks call that ended told its caller

storeVars == <<storeBatchSize, writer, runCount, latest, storeReport>>

VARIABLES
  customQuery,         \* _getRelevantContent argument ("" when none is given)
  qTopK,               \* _getRelevantContent argument topK
  qpc,                 \* where _getRelevantContent is
  qProbe,              \* number of generalQueries already searched
  allChunks,           \* results collected so far
  relevantChunks       \* what _getRelevantContent returned

quizVars == <<customQuery, qTopK, qpc, qProbe, allChunks, relevantChunks>>

VARIABLES
  calls                \* the calls to external services, by call number

callVars == <<calls>>

VARIABLES
  jobs,                \* the background processPdf run of each uploaded document
  statusReply          \* the last answer of getProcessingStatus

uploadVars == <<jobs, statusReply>>

VARIABLES
  served               \* the requests the quiz router has dispatched, in order

routeVars == <<served>>

VARIABLES
  ppc,                 \* position of processPDFComplete
  pchunks,             \* the embedding of each chunk of the document
  scriptReply,         \* what vector_search/store_chunks.py answered
  vectorStore,         \* the chunks of the document in the vector database
  pipeResult           \* the object processPDFComplete returned

pipeVars == <<ppc, pchunks, scriptReply, vectorStore, pipeResult>>

VARIABLES
  rawText,             \* the text extracted from the PDF, one character per element
  cleanedText,         \* the result of basicTextCleaning
  cleanpc              \* position of processText

cleanVars == <<rawText, cleanedText, cleanpc>>

VARIABLES
  questions,           \* the questions parsed from the model's responses
  validQuestions,      \* what validateQuestions returned
  vpc                  \* position of generateQuiz

validVars == <<questions, validQuestions, vpc>>

VARIABLES
  retryAttempt,        \* the argument of the scheduled checkStatus call
  retryCount,          \* the retryCount state of the component
  polling,             \* "scheduled" while a checkStatus call is due
  stopReason,          \* why the component has no call scheduled
  failStreak,          \* failed status requests since the last answered one
  statusRequests,      \* status requests sent so far
  shownStatus          \* the status state of the component

pollerVars == <<retryAttempt, retryCount, polling, stopReason, failStreak,
                statusRequests, shownStatus>>

VARIABLES
  maxAttempts,         \* pollProcessingStatus argument
  attempts,            \* the attempts counter of the closure
  pollRequests,        \* status requests sent by this call
  pollpc,              \* "request", "waiting", "returned" or "thrown"
  pollResult,          \* the status returned, or the kind of error thrown
  updates              \* the last status handed to onStatusUpdate

pollVars == <<maxAttempts, attempts, pollRequests, pollpc, pollResult, updates>>

vars == <<chunkVars, embedVars, searchVars, storeVars, quizVars, callVars, uploadVars, routeVars, pipeVars, cleanVars, validVars, pollerVars, pollVars>>

\* ------------------------------------------- the parts a run does not use
ChunkIdle ==
  /\ text = <<>> /\ pageCount = 1
  /\ chunkConfig = [maxTokens |-> 500, minTokens |-> 50, overlap |-> 50]
  /\ cpc = "idle"
  /\ initialChunks = <<>> /\ optimizedChunks = <<>> /\ chunksWithMetadata = <<>>
  /\ now = 0 /\ runNo = "first" /\ firstRun = <<>>

NoResult == [kind |-> "none"]

EmbedIdle ==
  /\ eimpl = "none" /\ mockMode = FALSE /\ batchSize = 1
  /\ echunks = <<>> /\ equery = "q1" /\ epc = "idle" /\ ei = 0
  /\ pendingReqs = {} /\ completionOrder = <<>> /\ embeddedChunks = <<>>
  /\ eresult = NoResult /\ providerFailed = FALSE

Docs == {"d1", "d2"}

NoSearch == [op |-> "none"]

SearchIdle ==
  /\ points = {} /\ vsMockMode = FALSE /\ lexicalHits = {}
  /\ lastSearch = NoSearch /\ lastWrite = [d \in Docs |-> "none"]

NoWriter == [pc |-> "idle"]

NoReport == [status |-> "none"]

StoreIdle ==
  /\ storeBatchSize = 1 /\ writer = NoWriter /\ runCount = 0
  /\ latest = [d \in Docs |-> {}]
  /\ storeReport = NoReport

QuizIdle ==
  /\ customQuery = "" /\ qTopK = 1 /\ qpc = "idle" /\ qProbe = 0
  /\ allChunks = <<>> /\ relevantChunks = <<>>

RouteIdle == served = <<>>

PollIdle ==
  /\ maxAttempts = 0 /\ attempts = 0 /\ pollRequests = 0 /\ pollpc = "idle"
  /\ pollResult = "none" /\ updates = "none"

PollerIdle ==
  /\ retryAttempt = 0 /\ retryCount = 0 /\ polling = "idle" /\ stopReason = "none"
  /\ failStreak = 0 /\ statusRequests = 0 /\ shownStatus = "null"

ValidIdle == questions = <<>> /\ validQuestions = <<>> /\ vpc = "idle"

CleanIdle == rawText = <<>> /\ cleanedText = <<>> /\ cleanpc = "idle"

NoReplyYet == [kind |-> "none"]

NoPipeResult == [success |-> "none"]

PipeIdle ==
  /\ ppc = "idle" /\ pchunks = <<>> /\ scriptReply = NoReplyYet
  /\ vectorStore = {} /\ pipeResult = NoPipeResult

UploadIds == 1..MaxUploads

NoJob == [stage |-> "none", logged |-> "none"]

NoReply == [status |-> "none"]

UploadIdle ==
  /\ jobs = [u \in UploadIds |-> NoJob]
  /\ statusReply = NoReply

CallIds == 1..MaxCalls

NoCall == [kind |-> "none", state |-> "idle", error |-> "none",
           timer |-> "none", child |-> "none"]

CallIdle == calls = [c \in CallIds |-> NoCall]

\* ----------------------------------------------------------------- helpers
SeqsUpTo(S, n) == UNION { [1..k -> S] : k \in 0..n }

RECURSIVE SumWords(_)
SumWords(s) == IF Len(s) = 0 THEN 0 ELSE Head(s).w + SumWords(Tail(s))

RECURSIVE Flatten(_)
Flatten(ss) == IF Len(ss) = 0 THEN <<>> ELSE Head(ss) \o Flatten(Tail(ss))

Min(a, b) == IF a < b THEN a ELSE b

CeilDiv(a, b) == (a + b - 1) \div b

\* the exponent of the double a / b: the e with 2^e <= a / b < 2^(e + 1)
RECURSIVE floorLog2(_, _)
floorLog2(a, b) ==
  IF a >= 2 * b THEN 1 + floorLog2(a, 2 * b)
  ELSE IF a < b THEN floorLog2(2 * a, b) - 1
  ELSE 0

\* 2^k modulo p
RECURSIVE powMod2(_, _)
powMod2(k, p) == IF k = 0 THEN 1 % p ELSE (2 * powMod2(k - 1, p)) % p

\* Math.ceil(x / (total / pages)) on JavaScript numbers (IEEE 754 doubles,
\* 53-bit significands, round to nearest even) for integers x >= 0 and
\* total, pages >= 1.  When x * pages / total is not an integer it lies at
\* least 1 / total from one and the two roundings cannot move it across.
\* When it is an integer n, the divisor total / pages keeps 52 - ep binary
\* places; rem is what the rounding of the divisor drops (in units of
\* 1 / pages of the last place).  A divisor rounded up, or exact, gives a
\* quotient that rounds to n or just below; a divisor rounded down gives
\* n * (1 + rem / (total * 2^(52 - ep))), which rounds above n exactly when
\* the excess reaches half the spacing 2^(en - 52) of the doubles at n.
estimatedPageOf(x, total, pages) ==
  IF x = 0 THEN 0
  ELSE IF (x * pages) % total # 0 THEN CeilDiv(x * pages, total)
  ELSE
    LET n   == (x * pages) \div total
        ep  == floorLog2(total, pages)
        rem == ((total % pages) * powMod2(52 - ep, pages)) % pages
        en  == floorLog2(n, 1)
        d   == 1 + ep - en
    IN  IF rem = 0 \/ 2 * rem >= pages THEN n
        ELSE IF d >= 0 THEN (IF n * rem * 2^d >= total THEN n + 1 ELSE n)
        ELSE (IF n * rem >= total * 2^(0 - d) THEN n + 1 ELSE n)

\* ------------------------------------------------------------- the chunker

\* estimateTokenCount: words = text.split(/\s+/).length (1 for the empty
\* string), Math.ceil(words / 0.75)
estimateTokenCount(str) ==
  LET words == IF Len(str) = 0 THEN 1 ELSE SumWords(str)
  IN  CeilDiv(4 * words, 3)

\* text.split(/\n\s*\n/): a new paragraph starts at every piece that follows
\* a blank line; `header` is the result of the heading pattern match on it
RECURSIVE splitParagraphsLoop(_, _, _)
splitParagraphsLoop(str, k, acc) ==
  IF k > Len(str) THEN acc
  ELSE LET piece == [id |-> str[k].id, w |-> str[k].w, t |-> str[k].t]
       IN  IF str[k].brk = "none" /\ Len(acc) > 0
             THEN splitParagraphsLoop(str, k + 1,
                    [acc EXCEPT ![Len(acc)].sents = Append(@, piece)])
             ELSE splitParagraphsLoop(str, k + 1,
                    Append(acc, [header |-> (str[k].brk = "header"),
                                 sents  |-> <<piece>>]))

splitParagraphs(str) == splitParagraphsLoop(str, 1, <<>>)

RECURSIVE semanticLoop(_, _, _)
semanticLoop(paragraphs, k, chunks) ==
  IF k > Len(paragraphs) THEN chunks
  ELSE LET paragraph == paragraphs[k].sents
           headerMatch == paragraphs[k].header
       IN  IF Len(paragraph) = 0
             THEN semanticLoop(paragraphs, k + 1, chunks)
           ELSE IF headerMatch /\ Len(chunks) > 0
             THEN semanticLoop(paragraphs, k + 1, Append(chunks, paragraph))
           ELSE IF Len(chunks) > 0
             THEN semanticLoop(paragraphs, k + 1,
                    [chunks EXCEPT ![Len(chunks)] = @ \o paragraph])
           ELSE semanticLoop(paragraphs, k + 1, Append(chunks, paragraph))

semanticChunking(str) ==
  SelectSeq(semanticLoop(splitParagraphs(str), 1, <<>>),
            LAMBDA chunk : Len(chunk) > 0)

\* str.split(/(?<=[.!?])\s+/): the maximal runs of pieces that end in a
\* terminated piece (or at the end of the string)
RECURSIVE splitSentencesLoop(_, _, _, _)
splitSentencesLoop(str, k, acc, cur) ==
  IF k > Len(str)
    THEN (IF Len(cur) > 0 THEN Append(acc, cur) ELSE acc)
  ELSE IF str[k].t
    THEN splitSentencesLoop(str, k + 1, Append(acc, Append(cur, str[k])), <<>>)
  ELSE splitSentencesLoop(str, k + 1, acc, Append(cur, str[k]))

splitSentences(str) == splitSentencesLoop(str, 1, <<>>, <<>>)

\* arr.slice(-n): slice(-0) is slice(0), the whole array
sliceLast(arr, n) ==
  IF n = 0 \/ n >= Len(arr) THEN arr
  ELSE SubSeq(arr, Len(arr) - n + 1, Len(arr))

\* mutant of overlapSentences: no sentence is carried over
overlapSentencesNone(currentChunk, overlap) == <<>>

\* currentChunk.split(...).slice(-Math.ceil(overlap / 10)).join(' ')
overlapSentences(currentChunk, overlap) ==
  Flatten(sliceLast(splitSentences(currentChunk), CeilDiv(overlap, 10)))

\* what splitLargeChunk pushes: overlapBuffer + ' ' + currentChunk when the
\* buffer is non-empty, else currentChunk.  `ov` records how many leading
\* pieces of the pushed string are the prepended overlap; the program does
\* not keep it, the coverage property needs it.
pushed(overlapBuffer, currentChunk) ==
  [text |-> overlapBuffer \o currentChunk, ov |-> Len(overlapBuffer)]

RECURSIVE splitLoop(_, _, _, _, _, _, _)
splitLoop(sentences, k, chunks, currentChunk, overlapBuffer, maxTokens, overlap) ==
  IF k > Len(sentences)
    THEN (IF Len(currentChunk) > 0
            THEN Append(chunks, pushed(overlapBuffer, currentChunk))
            ELSE chunks)
  ELSE LET sentence  == sentences[k]
           testChunk == currentChunk \o sentence
       IN  IF estimateTokenCount(testChunk) > maxTokens /\ Len(currentChunk) > 0
             THEN splitLoop(sentences, k + 1,
                            Append(chunks, pushed(overlapBuffer, currentChunk)),
                            sentence,
                            overlapSentences(currentChunk, overlap),
                            maxTokens, overlap)
             ELSE splitLoop(sentences, k + 1, chunks, testChunk, overlapBuffer,
                            maxTokens, overlap)

\* mutant of splitLargeChunk: the trailing `if (currentChunk) push` is lost
RECURSIVE splitLoopNoTail(_, _, _, _, _, _, _)
splitLoopNoTail(sentences, k, chunks, currentChunk, overlapBuffer, maxTokens, overlap) ==
  IF k > Len(sentences) THEN chunks
  ELSE LET sentence  == sentences[k]
           testChunk == currentChunk \o sentence
       IN  IF estimateTokenCount(testChunk) > maxTokens /\ Len(currentChunk) > 0
             THEN splitLoopNoTail(sentences, k + 1,
                            Append(chunks, pushed(overlapBuffer, currentChunk)),
                            sentence,
                            overlapSentences(currentChunk, overlap),
                            maxTokens, overlap)
             ELSE splitLoopNoTail(sentences, k + 1, chunks, testChunk,
                            overlapBuffer, maxTokens, overlap)

splitLargeChunkNoTail(chunk, maxTokens, overlap) ==
  splitLoopNoTail(splitSentences(chunk), 1, <<>>, <<>>, <<>>, maxTokens, overlap)

splitLargeChunk(chunk, maxTokens, overlap) ==
  splitLoop(splitSentences(chunk), 1, <<>>, <<>>, <<>>, maxTokens, overlap)

RECURSIVE optimizeLoop(_, _, _, _)
optimizeLoop(chunks, k, optimized, cfg) ==
  IF k > Len(chunks) THEN optimized
  ELSE LET chunk      == chunks[k]
           tokenCount == estimateTokenCount(chunk)
       IN  IF tokenCount <= cfg.maxTokens /\ tokenCount >= cfg.minTokens
             THEN optimizeLoop(chunks, k + 1,
                               Append(optimized, [text |-> chunk, ov |-> 0]), cfg)
           ELSE IF tokenCount > cfg.maxTokens
             THEN optimizeLoop(chunks, k + 1,
                               optimized \o splitLargeChunk(chunk, cfg.maxTokens, cfg.overlap),
                               cfg)
           ELSE IF tokenCount < cfg.minTokens /\ Len(optimized) > 0
             THEN LET lastChunk == optimized[Len(optimized)]
                      merged    == lastChunk.text \o chunk
                  IN  IF estimateTokenCount(merged) <= cfg.maxTokens
                        THEN optimizeLoop(chunks, k + 1,
                               [optimized EXCEPT ![Len(optimized)] =
                                   [text |-> merged, ov |-> lastChunk.ov]], cfg)
                        ELSE optimizeLoop(chunks, k + 1,
                               Append(optimized, [text |-> chunk, ov |-> 0]), cfg)
           ELSE optimizeLoop(chunks, k + 1,
                             Append(optimized, [text |-> chunk, ov |-> 0]), cfg)

optimizeChunkSizes(chunks, cfg) == optimizeLoop(chunks, 1, <<>>, cfg)

RECURSIVE SumTokens(_)
SumTokens(chunks) ==
  IF Len(chunks) = 0 THEN 0
  ELSE estimateTokenCount(Head(chunks).text) + SumTokens(Tail(chunks))

\* addMetadata; index is zero-based, position in the sequence is index + 1.
\* Math.ceil((index * tokenCount) / (total / pageCount)), `|| 1`, Math.min
addMetadata(chunks, pages, time) ==
  LET total == SumTokens(chunks)
  IN  [pos \in 1..Len(chunks) |->
        LET index         == pos - 1
            tokenCount    == estimateTokenCount(chunks[pos].text)
            estimatedPage == estimatedPageOf(index * tokenCount, total, pages)
        IN  [content    |-> chunks[pos].text,
             index      |-> index,
             tokenCount |-> tokenCount,
             pageNumber |-> Min(IF estimatedPage = 0 THEN 1 ELSE estimatedPage, pages),
             chunkId    |-> <<"chunk", index, time>>]]

\* ------------------------------------------------------ SpecChunk: actions
Pieces == [w : WordChoices, t : BOOLEAN, brk : {"none", "para", "header"}]

\* the texts: the first piece starts a paragraph, and plain whitespace
\* separates two pieces only when the first is terminated
Texts ==
  { [i \in 1..Len(s) |-> [id |-> i, w |-> s[i].w, t |-> s[i].t, brk |-> s[i].brk]] :
      s \in { r \in SeqsUpTo(Pieces, MaxPieces) :
                /\ Len(r) > 0 => r[1].brk # "none"
                /\ \A i \in 2..Len(r) : r[i].brk = "none" => r[i - 1].t } }

InitChunk ==
  /\ EmbedIdle /\ SearchIdle /\ StoreIdle /\ QuizIdle /\ CallIdle /\ UploadIdle /\ RouteIdle /\ PipeIdle /\ CleanIdle /\ ValidIdle /\ PollerIdle /\ PollIdle
  /\ text \in Texts
  /\ pageCount \in PageCounts
  /\ chunkConfig \in ConfigChoices
  /\ cpc = "start"
  /\ initialChunks = <<>> /\ optimizedChunks = <<>> /\ chunksWithMetadata = <<>>
  /\ now = 0 /\ runNo = "first" /\ firstRun = <<>>

\* createChunks line 27
SemanticChunking ==
  /\ cpc = "start"
  /\ initialChunks' = semanticChunking(text)
  /\ cpc' = "semantic"
  /\ UNCHANGED <<text, pageCount, chunkConfig, optimizedChunks,
                 chunksWithMetadata, now, runNo, firstRun>>
  /\ UNCHANGED <<embedVars, searchVars, storeVars, quizVars, callVars, uploadVars, routeVars, pipeVars, cleanVars, validVars, pollerVars, pollVars>>

\* createChunks line 30
OptimizeChunkSizes ==
  /\ cpc = "semantic"
  /\ optimizedChunks' = optimizeChunkSizes(initialChunks, chunkConfig)
  /\ cpc' = "optimized"
  /\ UNCHANGED <<text, pageCount, chunkConfig, initialChunks,
                 chunksWithMetadata, now, runNo, firstRun>>
  /\ UNCHANGED <<embedVars, searchVars, storeVars, quizVars, callVars, uploadVars, routeVars, pipeVars, cleanVars, validVars, pollerVars, pollVars>>

\* createChunks lines 33-40: addMetadata reads Date.now(), which never runs
\* backwards; validateChunks returns the chunks it was given on every path
AddMetadata ==
  /\ cpc = "optimized"
  /\ \E t \in now..MaxClock :
       /\ t >= 1
       /\ now' = t
       /\ chunksWithMetadata' = addMetadata(optimizedChunks, pageCount, t)
  /\ cpc' = "done"
  /\ UNCHANGED <<text, pageCount, chunkConfig, initialChunks, optimizedChunks,
                 runNo, firstRun>>
  /\ UNCHANGED <<embedVars, searchVars, storeVars, quizVars, callVars, uploadVars, routeVars, pipeVars, cleanVars, validVars, pollerVars, pollVars>>

\* the caller runs createChunks again on the same text, page count and
\* configuration
Rerun ==
  /\ cpc = "done"
  /\ runNo = "first"
  /\ runNo' = "second"
  /\ firstRun' = chunksWithMetadata
  /\ cpc' = "start"
  /\ initialChunks' = <<>> /\ optimizedChunks' = <<>> /\ chunksWithMetadata' = <<>>
  /\ UNCHANGED <<text, pageCount, chunkConfig, now>>
  /\ UNCHANGED <<embedVars, searchVars, storeVars, quizVars, callVars, uploadVars, routeVars, pipeVars, cleanVars, validVars, pollerVars, pollVars>>

NextChunk ==
  \/ SemanticChunking
  \/ OptimizeChunkSizes
  \/ AddMetadata
  \/ Rerun

SpecChunk == InitChunk /\ [][NextChunk]_vars

\* ------------------------------------------------------ SpecChunk: claims
Range(f) == { f[i] : i \in DOMAIN f }

\* the pieces of the input text, in order, as the chunks carry them
InputPieces(str) ==
  [i \in 1..Len(str) |-> [id |-> str[i].id, w |-> str[i].w, t |-> str[i].t]]

\* the emitted chunks with their prepended overlaps removed, concatenated
Bodies(chunks) ==
  Flatten([i \in 1..Len(chunks) |->
             SubSeq(chunks[i].text, chunks[i].ov + 1, Len(chunks[i].text))])

\* C1: every chunk createChunks returns, except possibly the last one, has
\* an estimated token count within [minTokens, maxTokens].
C1_TokenBounds ==
  cpc = "done" =>
    \A i \in 1..(Len(chunksWithMetadata) - 1) :
      /\ chunksWithMetadata[i].tokenCount >= chunkConfig.minTokens
      /\ chunksWithMetadata[i].tokenCount <= chunkConfig.maxTokens

\* C2: every sentence piece of the input is in at least one emitted chunk,
\* and the chunks without their prepended overlaps, concatenated in emission
\* order, are exactly the input pieces in their original order.
C2_Coverage ==
  /\ cpc \in {"optimized", "done"} =>
       /\ Bodies(optimizedChunks) = InputPieces(text)
       /\ \A piece \in Range(InputPieces(text)) :
            \E i \in 1..Len(optimizedChunks) :
              piece \in Range(optimizedChunks[i].text)
  /\ cpc = "done" =>
       /\ Len(chunksWithMetadata) = Len(optimizedChunks)
       /\ \A i \in 1..Len(optimizedChunks) :
            chunksWithMetadata[i].content = optimizedChunks[i].text

C2_Witness ==
  /\ cpc = "done"
  /\ Len(chunksWithMetadata) >= 3
  /\ \E i \in 1..Len(optimizedChunks) : optimizedChunks[i].ov > 0

\* C3: a second createChunks call on the same text, page count and
\* configuration returns the same chunks, ids included, as the first call.
C3_Deterministic ==
  (cpc = "done" /\ runNo = "second") => chunksWithMetadata = firstRun

\* C13: with a configuration whose minTokens exceeds maxTokens, createChunks
\* takes no step: no text is split, sized or labelled.
C13_InvalidConfigRejected ==
  chunkConfig.minTokens > chunkConfig.maxTokens => cpc = "start"

\* --------------------------------- the three-paragraph run (SpecThreeParas)
ScenarioWords    == {8, 30}
ScenarioOverlaps == {0, 50}

\* a paragraph of one sentence, or of two sentences of which the first is
\* terminated; b tells whether it starts with a heading
ParagraphsOf(b) ==
  { <<[w |-> w1, t |-> t1, brk |-> b]>> : w1 \in ScenarioWords, t1 \in BOOLEAN }
  \cup
  { <<[w |-> w1, t |-> TRUE, brk |-> b], [w |-> w2, t |-> t2, brk |-> "none"]>> :
      w1 \in ScenarioWords, w2 \in ScenarioWords, t2 \in BOOLEAN }

\* the paragraphs whose estimated token count is within [lo, hi]
ParagraphsWithin(lo, hi) ==
  { para \in ParagraphsOf("para") \cup ParagraphsOf("header") :
      /\ estimateTokenCount(para) >= lo
      /\ estimateTokenCount(para) <= hi }

\* the pieces of a text numbered in order
numbered(str) ==
  [i \in 1..Len(str) |-> [id |-> i, w |-> str[i].w, t |-> str[i].t, brk |-> str[i].brk]]

InitThreeParas ==
  /\ EmbedIdle /\ SearchIdle /\ StoreIdle /\ QuizIdle /\ CallIdle /\ UploadIdle /\ RouteIdle /\ PipeIdle /\ CleanIdle /\ ValidIdle /\ PollerIdle /\ PollIdle
  /\ \E ov \in ScenarioOverlaps :
       /\ chunkConfig = [maxTokens |-> 50, minTokens |-> 10, overlap |-> ov]
       /\ \E p1 \in ParagraphsWithin(10, 50), p2 \in ParagraphsWithin(10, 50),
             p3 \in ParagraphsWithin(10, 50) :
            text = numbered(p1 \o p2 \o p3)
  /\ pageCount = 1
  /\ cpc = "start"
  /\ initialChunks = <<>> /\ optimizedChunks = <<>> /\ chunksWithMetadata = <<>>
  /\ now = 0 /\ runNo = "first" /\ firstRun = <<>>

SpecThreeParas == InitThreeParas /\ [][NextChunk]_vars

\* C14: the run on three blank-line-separated paragraphs, each within
\* [minTokens, maxTokens], returns three chunks: chunk i holds paragraph i
\* and has index i - 1.
C14_OneChunkPerParagraph ==
  cpc = "done" =>
    /\ Len(chunksWithMetadata) = 3
    /\ \A i \in 1..Len(chunksWithMetadata) :
         /\ chunksWithMetadata[i].index = i - 1
         /\ i <= 3 => chunksWithMetadata[i].content = splitParagraphs(text)[i].sents

\* ------------------------------ the 300-token paragraph run (SpecLongPara)
LongParaWords     == 225        \* Math.ceil(225 / 0.75) = 300 tokens
SentenceWords     == {15, 45, 75}
LongParaMinTokens == {10, 50}

\* the sequences of sentence lengths that add up to n words
RECURSIVE SentenceLengths(_)
SentenceLengths(n) ==
  IF n = 0 THEN {<<>>}
  ELSE UNION { { <<w>> \o rest : rest \in SentenceLengths(n - w) } :
                 w \in { x \in SentenceWords : x <= n } }

\* one paragraph: every sentence but the last is terminated
paragraphOf(lengths, lastT) ==
  [i \in 1..Len(lengths) |->
     [id |-> i, w |-> lengths[i],
      t |-> (i < Len(lengths) \/ lastT),
      brk |-> IF i = 1 THEN "para" ELSE "none"]]

InitLongPara ==
  /\ EmbedIdle /\ SearchIdle /\ StoreIdle /\ QuizIdle /\ CallIdle /\ UploadIdle /\ RouteIdle /\ PipeIdle /\ CleanIdle /\ ValidIdle /\ PollerIdle /\ PollIdle
  /\ \E lengths \in SentenceLengths(LongParaWords), lastT \in BOOLEAN :
       text = paragraphOf(lengths, lastT)
  /\ \E lo \in LongParaMinTokens :
       chunkConfig = [maxTokens |-> 100, minTokens |-> lo, overlap |-> 20]
  /\ pageCount = 1
  /\ cpc = "start"
  /\ initialChunks = <<>> /\ optimizedChunks = <<>> /\ chunksWithMetadata = <<>>
  /\ now = 0 /\ runNo = "first" /\ firstRun = <<>>

SpecLongPara == InitLongPara /\ [][NextChunk]_vars

\* chunk i + 1 starts with prepended overlap, and the last sentence piece of
\* chunk i is among those prepended pieces
SharesSentence(chunks, i) ==
  /\ chunks[i + 1].ov > 0
  /\ \E k \in 1..chunks[i + 1].ov :
       chunks[i + 1].text[k] = chunks[i].text[Len(chunks[i].text)]

\* a sentence of the text ends after exactly n words
SentenceEndsAt(str, n) ==
  \E k \in 1..Len(str) : SumWords(SubSeq(str, 1, k)) = n

\* C15 as stated: the run on one paragraph of 300 estimated tokens with
\* maxTokens = 100 and overlap = 20 returns exactly 3 chunks, and each chunk
\* after the first starts with a trailing sentence of the chunk before it.
C15_ThreeChunks ==
  cpc = "done" =>
    /\ Len(chunksWithMetadata) = 3
    /\ \A i \in 1..(Len(optimizedChunks) - 1) : SharesSentence(optimizedChunks, i)

\* C15 amended: the same, for a paragraph in which a sentence ends after 100
\* tokens (75 words) and another after 200 tokens (150 words).
C15_ThreeChunksWhenSentencesFit ==
  (/\ cpc = "done"
   /\ SentenceEndsAt(text, 75)
   /\ SentenceEndsAt(text, 150)) =>
     /\ Len(chunksWithMetadata) = 3
     /\ \A i \in 1..(Len(optimizedChunks) - 1) : SharesSentence(optimizedChunks, i)

\* fifteen sentences of 20 tokens have been chunked
C15_Witness ==
  /\ cpc = "done"
  /\ Len(text) = 15
  /\ SentenceEndsAt(text, 75) /\ SentenceEndsAt(text, 150)
  /\ Len(chunksWithMetadata) = 3
  /\ optimizedChunks[2].ov = 2 /\ optimizedChunks[3].ov = 2

\* ---------------------------------------------------- embedding generation
Contents      == {"a", "b", "c"}
Queries       == {"q1", "q2"}
RandomChoices == {1, 2}

\* the vector the embedding model produces for a prepared text
ProviderVector(type, str) == [by |-> "provider", type |-> type, of |-> str]

\* _generateMockEmbedding: a normalised vector of Math.random() values
MockVector(r) == [by |-> "mock", rnd |-> r]

\* prepareTextForEmbedding / generateQueryEmbedding: prefix + text
prepareTextForEmbedding(str) == <<"passage: ", str>>
prepareQuery(str)            == <<"query: ", str>>

\* batch = chunks.slice(i, i + batchSize), i zero-based
batchOf(chunks, i, size) == SubSeq(chunks, i + 1, Min(i + size, Len(chunks)))

\* python bridge generateEmbedding(text, type): the script embeds the text it
\* is given under the given type
generateEmbedding(str, type) == ProviderVector(type, str)

\* mutant of promiseAll: results collected in completion order
promiseAllCompletionOrder(batch, order) ==
  [k \in 1..Len(batch) |->
     [index     |-> batch[k].index,
      content   |-> batch[k].content,
      embedding |-> generateEmbedding(batch[order[k]].content, "passage")]]

\* await Promise.all(batch.map(async chunk => ({...chunk, embedding}))):
\* the k-th result is the value of the k-th promise, whatever the order in
\* which the promises settled
promiseAll(batch, order) ==
  [k \in 1..Len(batch) |->
     [index     |-> batch[k].index,
      content   |-> batch[k].content,
      embedding |-> generateEmbedding(batch[k].content, "passage")]]

\* llmService.createEmbeddings(texts): response.data.map(item => item.embedding),
\* the API answers with one item per input, in input order
createEmbeddings(texts) ==
  [k \in 1..Len(texts) |-> [by |-> "provider", type |-> "passage", of |-> texts[k][2]]]

\* processBatch: batch.map((chunk, index) => ({...chunk, embedding: embeddings[index]}))
processBatch(batch) ==
  LET texts      == [k \in 1..Len(batch) |-> prepareTextForEmbedding(batch[k].content)]
      embeddings == createEmbeddings(texts)
  IN  [k \in 1..Len(batch) |->
         [index     |-> batch[k].index,
          content   |-> batch[k].content,
          embedding |-> embeddings[k]]]

\* chunks.map(chunk => ({...chunk, embedding: this._generateMockEmbedding()}))
withMockEmbeddings(chunks, rnd) ==
  [k \in 1..Len(chunks) |->
     [index     |-> chunks[k].index,
      content   |-> chunks[k].content,
      embedding |-> MockVector(rnd[k])]]

\* result.embeddings of embedding_generator.py run on the whole chunk list
scriptEmbeddings(chunks) ==
  [k \in 1..Len(chunks) |->
     [index     |-> chunks[k].index,
      content   |-> chunks[k].content,
      embedding |-> ProviderVector("passage", chunks[k].content)]]

EmbedInputs ==
  { [k \in 1..Len(cs) |-> [index |-> k - 1, content |-> cs[k]]] :
      cs \in SeqsUpTo(Contents, MaxEmbChunks) }

InitEmbed ==
  /\ ChunkIdle /\ SearchIdle /\ StoreIdle /\ QuizIdle /\ CallIdle /\ UploadIdle /\ RouteIdle /\ PipeIdle /\ CleanIdle /\ ValidIdle /\ PollerIdle /\ PollIdle
  /\ eimpl \in {"bridge", "mock", "openai"}
  /\ mockMode \in (IF eimpl = "mock" THEN BOOLEAN ELSE {FALSE})
  /\ batchSize \in (IF eimpl = "mock" THEN {1} ELSE 1..MaxBatchSize)
  /\ echunks \in EmbedInputs
  /\ equery \in Queries
  /\ epc = "ready" /\ ei = 0
  /\ pendingReqs = {} /\ completionOrder = <<>> /\ embeddedChunks = <<>>
  /\ eresult = NoResult /\ providerFailed = FALSE

\* -- python bridge EmbeddingService.generateChunkEmbeddings
\* entering the call, or the for loop coming round: issue the next batch
BridgeStartBatch ==
  /\ eimpl = "bridge" /\ epc \in {"ready", "loop"}
  /\ ei < Len(echunks)
  /\ pendingReqs' = 1..Len(batchOf(echunks, ei, batchSize))
  /\ completionOrder' = <<>>
  /\ epc' = "await"
  /\ UNCHANGED <<eimpl, mockMode, batchSize, echunks, equery, ei, embeddedChunks,
                 eresult, providerFailed>>
  /\ UNCHANGED <<chunkVars, searchVars, storeVars, quizVars, callVars, uploadVars, routeVars, pipeVars, cleanVars, validVars, pollerVars, pollVars>>

\* one of the requests in flight completes
BridgeRequestCompletes ==
  /\ eimpl = "bridge" /\ epc = "await"
  /\ \E k \in pendingReqs :
       /\ pendingReqs' = pendingReqs \ {k}
       /\ completionOrder' = Append(completionOrder, k)
  /\ UNCHANGED <<eimpl, mockMode, batchSize, echunks, equery, epc, ei,
                 embeddedChunks, eresult, providerFailed>>
  /\ UNCHANGED <<chunkVars, searchVars, storeVars, quizVars, callVars, uploadVars, routeVars, pipeVars, cleanVars, validVars, pollerVars, pollVars>>

\* one of the requests in flight fails: Promise.all rejects, the catch
\* rethrows 'Batch embedding generation failed'
BridgeRequestFails ==
  /\ eimpl = "bridge" /\ epc = "await"
  /\ \E k \in pendingReqs : pendingReqs' = pendingReqs \ {k}
  /\ providerFailed' = TRUE
  /\ epc' = "thrown"
  /\ eresult' = [kind |-> "error"]
  /\ UNCHANGED <<eimpl, mockMode, batchSize, echunks, equery, ei, completionOrder,
                 embeddedChunks>>
  /\ UNCHANGED <<chunkVars, searchVars, storeVars, quizVars, callVars, uploadVars, routeVars, pipeVars, cleanVars, validVars, pollerVars, pollVars>>

\* all requests of the batch have completed: push the batch, i += batchSize
BridgeAwaitAll ==
  /\ eimpl = "bridge" /\ epc = "await"
  /\ pendingReqs = {}
  /\ embeddedChunks' = embeddedChunks \o
                         promiseAll(batchOf(echunks, ei, batchSize), completionOrder)
  /\ ei' = ei + batchSize
  /\ epc' = "loop"
  /\ UNCHANGED <<eimpl, mockMode, batchSize, echunks, equery, pendingReqs,
                 completionOrder, eresult, providerFailed>>
  /\ UNCHANGED <<chunkVars, searchVars, storeVars, quizVars, callVars, uploadVars, routeVars, pipeVars, cleanVars, validVars, pollerVars, pollVars>>

\* -- OpenAI-backed EmbeddingService.generateEmbeddings: one createEmbeddings
\* request per batch, the next batch starts when it has answered
OpenAIProcessBatch ==
  /\ eimpl = "openai" /\ epc \in {"ready", "loop"}
  /\ ei < Len(echunks)
  /\ \E ok \in BOOLEAN :
       IF ok
         THEN /\ embeddedChunks' = embeddedChunks \o
                                     processBatch(batchOf(echunks, ei, batchSize))
              /\ ei' = ei + batchSize
              /\ epc' = "loop"
              /\ UNCHANGED <<eresult, providerFailed>>
         ELSE /\ providerFailed' = TRUE
              /\ epc' = "thrown"
              /\ eresult' = [kind |-> "error"]
              /\ UNCHANGED <<embeddedChunks, ei>>
  /\ UNCHANGED <<eimpl, mockMode, batchSize, echunks, equery, pendingReqs,
                 completionOrder>>
  /\ UNCHANGED <<chunkVars, searchVars, storeVars, quizVars, callVars, uploadVars, routeVars, pipeVars, cleanVars, validVars, pollerVars, pollVars>>

\* both loops: i has passed the last chunk, the call returns what it built
ReturnEmbeddings ==
  /\ eimpl \in {"bridge", "openai"} /\ epc \in {"ready", "loop"}
  /\ ei >= Len(echunks)
  /\ eresult' = [kind |-> "chunks", chunks |-> embeddedChunks]
  /\ epc' = "returned"
  /\ UNCHANGED <<eimpl, mockMode, batchSize, echunks, equery, ei, pendingReqs,
                 completionOrder, embeddedChunks, providerFailed>>
  /\ UNCHANGED <<chunkVars, searchVars, storeVars, quizVars, callVars, uploadVars, routeVars, pipeVars, cleanVars, validVars, pollerVars, pollVars>>

\* -- bridge and OpenAI generateQueryEmbedding: the vector, or the error rethrown
GenerateQueryEmbedding ==
  /\ eimpl \in {"bridge", "openai"} /\ epc = "ready"
  /\ \E ok \in BOOLEAN :
       IF ok
         THEN /\ eresult' = [kind |-> "vector",
                             vector |-> IF eimpl = "bridge"
                                          THEN generateEmbedding(equery, "query")
                                          ELSE ProviderVector("query", prepareQuery(equery)[2])]
              /\ epc' = "returned"
              /\ UNCHANGED providerFailed
         ELSE /\ eresult' = [kind |-> "error"]
              /\ epc' = "thrown"
              /\ providerFailed' = TRUE
  /\ UNCHANGED <<eimpl, mockMode, batchSize, echunks, equery, ei, pendingReqs,
                 completionOrder, embeddedChunks>>
  /\ UNCHANGED <<chunkVars, searchVars, storeVars, quizVars, callVars, uploadVars, routeVars, pipeVars, cleanVars, validVars, pollerVars, pollVars>>

\* -- EmbeddingService with mock support: generateChunkEmbeddings
MockGenerateChunkEmbeddings ==
  /\ eimpl = "mock" /\ epc = "ready"
  /\ \E outcome \in {"embeddings", "missing", "throw"},
        rnd \in [1..Len(echunks) -> RandomChoices] :
       IF mockMode
         THEN /\ outcome = "embeddings"
              /\ eresult' = [kind |-> "chunks", chunks |-> withMockEmbeddings(echunks, rnd)]
              /\ UNCHANGED providerFailed
       ELSE IF outcome = "embeddings"
         THEN /\ eresult' = [kind |-> "chunks", chunks |-> scriptEmbeddings(echunks)]
              /\ UNCHANGED providerFailed
       ELSE IF outcome = "missing"
         THEN /\ eresult' = [kind |-> "plain", chunks |-> echunks]
              /\ UNCHANGED providerFailed
       ELSE /\ eresult' = [kind |-> "chunks", chunks |-> withMockEmbeddings(echunks, rnd)]
            /\ providerFailed' = TRUE
  /\ epc' = "returned"
  /\ UNCHANGED <<eimpl, mockMode, batchSize, echunks, equery, ei, pendingReqs,
                 completionOrder, embeddedChunks>>
  /\ UNCHANGED <<chunkVars, searchVars, storeVars, quizVars, callVars, uploadVars, routeVars, pipeVars, cleanVars, validVars, pollerVars, pollVars>>

\* -- EmbeddingService with mock support: generateQueryEmbedding
MockGenerateQueryEmbedding ==
  /\ eimpl = "mock" /\ epc = "ready"
  /\ \E outcome \in {"embedding", "missing", "throw"}, r \in RandomChoices :
       IF mockMode
         THEN /\ outcome = "embedding"
              /\ eresult' = [kind |-> "vector", vector |-> MockVector(r)]
              /\ UNCHANGED providerFailed
       ELSE IF outcome = "embedding"
         THEN /\ eresult' = [kind |-> "vector", vector |-> ProviderVector("query", equery)]
              /\ UNCHANGED providerFailed
       ELSE IF outcome = "missing"
         THEN /\ eresult' = [kind |-> "vector", vector |-> MockVector(r)]
              /\ UNCHANGED providerFailed
       ELSE /\ eresult' = [kind |-> "vector", vector |-> MockVector(r)]
            /\ providerFailed' = TRUE
  /\ epc' = "returned"
  /\ UNCHANGED <<eimpl, mockMode, batchSize, echunks, equery, ei, pendingReqs,
                 completionOrder, embeddedChunks>>
  /\ UNCHANGED <<chunkVars, searchVars, storeVars, quizVars, callVars, uploadVars, routeVars, pipeVars, cleanVars, validVars, pollerVars, pollVars>>

NextEmbed ==
  \/ BridgeStartBatch
  \/ BridgeRequestCompletes
  \/ BridgeRequestFails
  \/ BridgeAwaitAll
  \/ OpenAIProcessBatch
  \/ ReturnEmbeddings
  \/ GenerateQueryEmbedding
  \/ MockGenerateChunkEmbeddings
  \/ MockGenerateQueryEmbedding

SpecEmbed == InitEmbed /\ [][NextEmbed]_vars

\* ------------------------------------------------------ SpecEmbed: claims

\* the vectors in a value handed to the caller
ReturnedVectors ==
  IF eresult.kind = "chunks"
    THEN { eresult.chunks[k].embedding : k \in 1..Len(eresult.chunks) }
  ELSE IF eresult.kind = "vector" THEN { eresult.vector }
  ELSE {}

\* C4: when the provider fails the embedding call fails, and unless mock mode
\* was configured every vector handed to the caller was produced by the
\* provider.
C4_NoSilentMockVectors ==
  /\ providerFailed => epc = "thrown"
  /\ ~mockMode => \A v \in ReturnedVectors : v.by = "provider"

\* C6: the chunk list generateChunkEmbeddings / generateEmbeddings returns has
\* one element per input chunk, and its i-th element is the i-th input chunk
\* with the embedding of that chunk's content.
C6_OrderPreserved ==
  (eimpl \in {"bridge", "openai"} /\ epc = "returned" /\ eresult.kind = "chunks") =>
    /\ Len(eresult.chunks) = Len(echunks)
    /\ \A i \in 1..Len(echunks) :
         /\ eresult.chunks[i].index = echunks[i].index
         /\ eresult.chunks[i].content = echunks[i].content
         /\ eresult.chunks[i].embedding = ProviderVector("passage", echunks[i].content)

\* C6 witness: a batch of three distinct chunks whose requests completed out
\* of order has been returned
C6_Witness ==
  /\ eimpl = "bridge" /\ epc = "returned" /\ eresult.kind = "chunks"
  /\ Len(echunks) = 3 /\ batchSize = 3
  /\ completionOrder = <<3, 1, 2>>
  /\ Cardinality({ echunks[i].content : i \in 1..3 }) = 3


\* ------------------------------------------------------- the vector index
\* A point is [id, documentId, index, run]: id is `${documentId}_${index}`,
\* run tells the processing runs of one document apart.  Scores are cosine
\* similarities in hundredths.

PointIds == { <<d, i>> : d \in Docs, i \in 0..MaxIndex }

\* cosine similarity of a stored chunk to the query vector of the search
CosineScore(p) == (IF p.documentId = "d1" THEN 80 ELSE 70) - 30 * p.index

Max(a, b) == IF a > b THEN a ELSE b

\* client.upsert(collection, {wait: true, points: batch}): insert, or
\* overwrite the point with the same id
qdrantUpsert(pts, batch) ==
  { p \in pts : \A b \in batch : b.id # p.id } \cup batch

\* mutant of qdrantDelete: the delete request carries no filter
qdrantDeleteUnfiltered(pts, d) == {}

\* client.delete(collection, {filter: documentId = d, wait: true})
qdrantDelete(pts, d) == { p \in pts : p.documentId # d }

RECURSIVE sortByScore(_)
sortByScore(hits) ==
  IF hits = {} THEN <<>>
  ELSE LET best == CHOOSE p \in hits : \A q \in hits : q.score <= p.score
       IN  <<best>> \o sortByScore(hits \ {best})

\* client.search(collection, {vector, limit, score_threshold, filter}): the
\* points that pass the filter and reach the threshold, best first, at most
\* `limit` of them.  documentId "null" means no filter.
qdrantSearch(pts, documentId, limit, scoreThreshold) ==
  LET hits == { [id |-> p.id, score |-> CosineScore(p),
                 document_id |-> p.documentId, index |-> p.index] :
                  p \in { x \in pts :
                            /\ documentId # "null" => x.documentId = documentId
                            /\ CosineScore(x) >= scoreThreshold } }
      ranked == sortByScore(hits)
  IN  SubSeq(ranked, 1, Min(limit, Len(ranked)))

\* _getMockSearchResults(documentId, topK): Math.min(topK, 8) canned results
\* with score 0.95 - i * 0.05
getMockSearchResults(documentId, topK) ==
  [k \in 1..Min(topK, 8) |->
     [id          |-> <<"mock_chunk", k - 1>>,
      score       |-> 95 - (k - 1) * 5,
      document_id |-> IF documentId = "null" THEN "mock_doc" ELSE documentId,
      index       |-> k - 1]]

\* VectorSearchService.searchSimilarChunks of the mock-capable bridge;
\* outcome is what executePythonScript did: "ok" or "throw"
vsSearchSimilarChunks(pts, mock, outcome, documentId, topK, scoreThreshold) ==
  IF mock \/ outcome = "throw"
    THEN getMockSearchResults(documentId, topK)
    ELSE qdrantSearch(pts, documentId, topK, Max(scoreThreshold, 0))

\* results.filter(result => result.score >= scoreThreshold)
filterByScore(results, scoreThreshold) ==
  SelectSeq(results, LAMBDA r : r.score >= scoreThreshold)

TopKChoices      == {1, 5}
ThresholdChoices == {0, 60, 110}
DocFilters       == Docs \cup {"null"}
defaultScoreThreshold == 0

\* the chunks of one store call for document d
StoreInputs(d) ==
  { { [id |-> <<d, i>>, documentId |-> d, index |-> i, run |-> 1] : i \in is } :
      is \in SUBSET (0..MaxIndex) }

InitSearch ==
  /\ ChunkIdle /\ EmbedIdle /\ StoreIdle /\ QuizIdle /\ CallIdle /\ UploadIdle /\ RouteIdle /\ PipeIdle /\ CleanIdle /\ ValidIdle /\ PollerIdle /\ PollIdle
  /\ points = {}
  /\ vsMockMode \in BOOLEAN
  /\ lexicalHits \in SUBSET { <<"d1", 0>>, <<"d1", 1>> }
  /\ lastSearch = NoSearch
  /\ lastWrite = [d \in Docs |-> "none"]

\* VectorSearchService.storeChunkEmbeddings(documentId, chunks)
StoreChunkEmbeddings ==
  /\ \E d \in Docs, outcome \in {"ok", "throw"} : \E chunks \in StoreInputs(d) :
       IF vsMockMode
         THEN /\ outcome = "ok"
              /\ lastWrite' = [lastWrite EXCEPT ![d] = "stored"]
              /\ UNCHANGED points
       ELSE IF outcome = "ok"
         THEN /\ points' = qdrantUpsert(points, chunks)
              /\ lastWrite' = [lastWrite EXCEPT ![d] = "stored"]
         ELSE UNCHANGED <<points, lastWrite>>
  /\ lastSearch' = NoSearch
  /\ UNCHANGED <<vsMockMode, lexicalHits>>
  /\ UNCHANGED <<chunkVars, embedVars, storeVars, quizVars, callVars, uploadVars, routeVars, pipeVars, cleanVars, validVars, pollerVars, pollVars>>

\* VectorSearchService.deleteDocumentChunks(documentId)
DeleteDocumentChunks ==
  /\ \E d \in Docs, outcome \in {"ok", "throw"} :
       IF vsMockMode
         THEN /\ outcome = "ok"
              /\ lastWrite' = [lastWrite EXCEPT ![d] = "deleted"]
              /\ UNCHANGED points
       ELSE IF outcome = "ok"
         THEN /\ points' = qdrantDelete(points, d)
              /\ lastWrite' = [lastWrite EXCEPT ![d] = "deleted"]
         ELSE UNCHANGED <<points, lastWrite>>
  /\ lastSearch' = NoSearch
  /\ UNCHANGED <<vsMockMode, lexicalHits>>
  /\ UNCHANGED <<chunkVars, embedVars, storeVars, quizVars, callVars, uploadVars, routeVars, pipeVars, cleanVars, validVars, pollerVars, pollVars>>

\* VectorSearchService.searchSimilarChunks, also reached through
\* VectorSearchServiceWrapper.searchSimilarChunks
SearchSimilarChunks ==
  /\ \E d \in DocFilters, topK \in TopKChoices, thr \in ThresholdChoices,
        outcome \in {"ok", "throw"} :
       lastSearch' =
         [op |-> "searchSimilarChunks", documentId |-> d, topK |-> topK,
          scoreThreshold |-> thr, status |-> "ok",
          sourceFailed |-> (~ vsMockMode /\ outcome = "throw"),
          results |-> vsSearchSimilarChunks(points, vsMockMode, outcome, d, topK, thr)]
  /\ UNCHANGED <<points, vsMockMode, lexicalHits, lastWrite>>
  /\ UNCHANGED <<chunkVars, embedVars, storeVars, quizVars, callVars, uploadVars, routeVars, pipeVars, cleanVars, validVars, pollerVars, pollVars>>

\* VectorSearchServiceWrapper.searchWithQuery(query, documentId, topK)
SearchWithQuery ==
  /\ \E d \in DocFilters, topK \in TopKChoices,
        embedded \in BOOLEAN, outcome \in {"ok", "throw"} :
       lastSearch' =
         IF embedded
           THEN [op |-> "searchWithQuery", documentId |-> d, topK |-> topK,
                 scoreThreshold |-> defaultScoreThreshold, status |-> "ok",
                 sourceFailed |-> (~ vsMockMode /\ outcome = "throw"),
                 results |-> vsSearchSimilarChunks(points, vsMockMode, outcome, d,
                                                   topK, defaultScoreThreshold)]
           ELSE [op |-> "searchWithQuery", documentId |-> d, topK |-> topK,
                 scoreThreshold |-> defaultScoreThreshold, status |-> "error",
                 sourceFailed |-> FALSE,
                 results |-> <<>>]
  /\ UNCHANGED <<points, vsMockMode, lexicalHits, lastWrite>>
  /\ UNCHANGED <<chunkVars, embedVars, storeVars, quizVars, callVars, uploadVars, routeVars, pipeVars, cleanVars, validVars, pollerVars, pollVars>>

\* VectorSearchServiceWrapper.advancedSearch({query, documentId, topK,
\* scoreThreshold}); a string query goes through searchWithQuery, an
\* embedding through searchSimilarChunks
AdvancedSearch ==
  /\ \E d \in DocFilters, topK \in TopKChoices, thr \in ThresholdChoices,
        queryType \in {"string", "array", "other"},
        embedded \in BOOLEAN, outcome \in {"ok", "throw"} :
       lastSearch' =
         IF queryType = "other" \/ (queryType = "string" /\ ~embedded)
           THEN [op |-> "advancedSearch", documentId |-> d, topK |-> topK,
                 scoreThreshold |-> thr, status |-> "error",
                 sourceFailed |-> FALSE, results |-> <<>>]
           ELSE [op |-> "advancedSearch", documentId |-> d, topK |-> topK,
                 scoreThreshold |-> thr, status |-> "ok",
                 sourceFailed |-> (~ vsMockMode /\ outcome = "throw"),
                 results |->
                   filterByScore(
                     vsSearchSimilarChunks(points, vsMockMode, outcome, d, topK,
                        IF queryType = "string" THEN defaultScoreThreshold ELSE thr),
                     thr)]
  /\ UNCHANGED <<points, vsMockMode, lexicalHits, lastWrite>>
  /\ UNCHANGED <<chunkVars, embedVars, storeVars, quizVars, callVars, uploadVars, routeVars, pipeVars, cleanVars, validVars, pollerVars, pollVars>>

NextSearch ==
  \/ StoreChunkEmbeddings
  \/ DeleteDocumentChunks
  \/ SearchSimilarChunks
  \/ SearchWithQuery
  \/ AdvancedSearch

SpecSearch == InitSearch /\ [][NextSearch]_vars

\* ----------------------------------------------------- SpecSearch: claims

C7_ScoreThreshold ==
  lastSearch.op \in {"searchSimilarChunks", "advancedSearch"} =>
    /\ lastSearch.status = "ok" =>
         \A k \in 1..Len(lastSearch.results) :
           lastSearch.results[k].score >= lastSearch.scoreThreshold
    /\ lastSearch.scoreThreshold = 110 =>
         (lastSearch.status = "ok" /\ lastSearch.results = <<>>)

\* C8: once deleteDocumentChunks(D) has reported success, and until D is
\* stored again, a search filtered to D returns no result.
C8_DeletedThenEmpty ==
  (/\ lastSearch.op # "none"
   /\ lastSearch.status = "ok"
   /\ lastSearch.documentId \in Docs
   /\ lastWrite[lastSearch.documentId] = "deleted") =>
     lastSearch.results = <<>>

\* C17: a retrieval whose vector search failed (the code has no other
\* source) ends in an error; it does not return a result list.
C17_AllSourcesFailIsError ==
  (/\ lastSearch.op \in {"searchWithQuery", "searchSimilarChunks", "advancedSearch"}
   /\ lastSearch.sourceFailed) =>
     lastSearch.status = "error"


\* ------------------------------------- VectorDatabaseService (SpecStore)
StoreBatchSizeChoices == {1, 2}
MinScoreChoices       == {0, 70}

\* storeChunks lines 91-104: one point per embedded chunk, id
\* `${documentId}_${chunk.index}`; a chunker run of n chunks has the indices
\* 0..n-1
\* Config.EMBEDDING_MODEL.dimensions, the vector size of the collection
dimensions == 384

\* lengths of embeddings that do not fit the collection: one short of the
\* dimension, and the 1536 of text-embedding-ada-002 (the OpenAI fallback of
\* processBatch)
WrongSizes == {383, 1536}

\* the embedding lengths of a run of n chunks: all of the configured
\* dimension, or one chunk (the bad-th) of another length
embeddingLengths(n, bad, sz) ==
  [k \in 1..n |-> IF k = bad THEN sz ELSE dimensions]

\* mutant of pointsOfRun: the vector is cut or padded to the collection's size
pointsOfRunResized(d, lengths, run) ==
  [k \in 1..Len(lengths) |->
     [id |-> <<d, k - 1>>, documentId |-> d, index |-> k - 1, run |-> run,
      size |-> dimensions]]

\* storeChunks lines 91-104: one point per embedded chunk, id
\* `${documentId}_${chunk.index}`, vector: chunk.embedding as it is; a
\* chunker run of n chunks has the indices 0..n-1
pointsOfRun(d, lengths, run) ==
  [k \in 1..Len(lengths) |->
     [id |-> <<d, k - 1>>, documentId |-> d, index |-> k - 1, run |-> run,
      size |-> lengths[k]]]

\* Qdrant takes an upsert request only if every vector has the size the
\* collection was created with (createCollection lines 68-73)
qdrantAccepts(batch) == \A p \in batch : p.size = dimensions

\* the points of document d in the collection
pointsOfDoc(pts, d) == { p \in pts : p.documentId = d }

\* points.slice(i, i + batchSize) as the set of points one upsert carries
batchPoints(pts, i, size) ==
  { pts[k] : k \in (i + 1)..Min(i + size, Len(pts)) }

InitStore ==
  /\ ChunkIdle /\ EmbedIdle /\ QuizIdle /\ CallIdle /\ UploadIdle /\ RouteIdle /\ PipeIdle /\ CleanIdle /\ ValidIdle /\ PollerIdle /\ PollIdle
  /\ points = {} /\ vsMockMode = FALSE /\ lexicalHits = {}
  /\ lastSearch = NoSearch /\ lastWrite = [d \in Docs |-> "none"]
  /\ storeBatchSize \in StoreBatchSizeChoices
  /\ writer = NoWriter /\ runCount = 0
  /\ latest = [d \in Docs |-> {}]
  /\ storeReport = NoReport

\* storeChunks(embeddedChunks, documentId) up to the first upsert; `old` keeps
\* the points the document had when its rewrite began (before the delete that
\* preceded this store, if there was one)
StoreChunksBegin ==
  /\ writer.pc = "idle"
  /\ runCount < MaxStoreRuns
  /\ \E d \in Docs, n \in 0..(MaxIndex + 1) :
       \E bad \in 0..n, sz \in WrongSizes :
         writer' = [pc  |-> "upserting", doc |-> d, i |-> 0,
                    given |-> embeddingLengths(n, bad, sz),
                    pts |-> pointsOfRun(d, embeddingLengths(n, bad, sz),
                                        runCount + 1),
                    old |-> IF lastWrite[d] = "deleted" THEN latest[d]
                            ELSE pointsOfDoc(points, d)]
  /\ runCount' = runCount + 1
  /\ storeReport' = NoReport
  /\ lastSearch' = NoSearch
  /\ UNCHANGED <<points, vsMockMode, lexicalHits, lastWrite, storeBatchSize, latest>>
  /\ UNCHANGED <<chunkVars, embedVars, quizVars, callVars, uploadVars, routeVars, pipeVars, cleanVars, validVars, pollerVars, pollVars>>

\* one turn of the upload loop: await client.upsert(..., {wait: true, points:
\* batch}).  A rejected upsert leaves the loop through the catch, which
\* rethrows.  A request that Qdrant refuses writes nothing; a request whose
\* answer is lost (connection reset, client timeout) may have been applied in
\* full.  The code does not look which of the two happened.
UpsertBatch ==
  /\ writer.pc = "upserting"
  /\ writer.i < Len(writer.pts)
  /\ LET batch == batchPoints(writer.pts, writer.i, storeBatchSize)
     IN  \E ok \in BOOLEAN, done \in {{}, batch} :
           IF ok /\ qdrantAccepts(batch)
             THEN /\ done = batch
                  /\ points' = qdrantUpsert(points, batch)
                  /\ writer' = [writer EXCEPT !.i = @ + storeBatchSize]
                  /\ UNCHANGED <<lastWrite, storeReport>>
             ELSE /\ ~ ok
                  /\ qdrantAccepts(done)
                  /\ points' = qdrantUpsert(points, done)
                  /\ writer' = NoWriter
                  /\ lastWrite' = [lastWrite EXCEPT ![writer.doc] = "failed"]
                  /\ storeReport' = [status |-> "failed", doc |-> writer.doc,
                                     given |-> writer.given, at |-> writer.i,
                                     batch |-> batch, committed |-> done]
  /\ lastSearch' = NoSearch
  /\ UNCHANGED <<vsMockMode, lexicalHits, storeBatchSize, runCount, latest>>
  /\ UNCHANGED <<chunkVars, embedVars, quizVars, callVars, uploadVars, routeVars, pipeVars, cleanVars, validVars, pollerVars, pollVars>>

\* the loop is over: storeChunks returns {success: true, chunksStored}
StoreChunksReturn ==
  /\ writer.pc = "upserting"
  /\ writer.i >= Len(writer.pts)
  /\ latest' = [latest EXCEPT ![writer.doc] = Range(writer.pts)]
  /\ lastWrite' = [lastWrite EXCEPT ![writer.doc] = "stored"]
  /\ storeReport' = [status |-> "stored", doc |-> writer.doc,
                     given |-> writer.given]
  /\ writer' = NoWriter
  /\ lastSearch' = NoSearch
  /\ UNCHANGED <<points, vsMockMode, lexicalHits, storeBatchSize, runCount>>
  /\ UNCHANGED <<chunkVars, embedVars, quizVars, callVars, uploadVars, routeVars, pipeVars, cleanVars, validVars, pollerVars, pollVars>>

\* deleteDocument(documentId): one filtered delete; `latest` keeps what the
\* delete removed until the document is stored again
DeleteDocument ==
  /\ \E d \in Docs, ok \in BOOLEAN :
       /\ writer.pc = "upserting" => writer.doc # d
       /\ lastWrite[d] # "deleted"
       /\ IF ok
            THEN /\ points' = qdrantDelete(points, d)
                 /\ latest' = [latest EXCEPT ![d] = pointsOfDoc(points, d)]
                 /\ lastWrite' = [lastWrite EXCEPT ![d] = "deleted"]
            ELSE UNCHANGED <<points, latest, lastWrite>>
  /\ lastSearch' = NoSearch
  /\ UNCHANGED <<vsMockMode, lexicalHits, storeBatchSize, writer, runCount,
                 storeReport>>
  /\ UNCHANGED <<chunkVars, embedVars, quizVars, callVars, uploadVars, routeVars, pipeVars, cleanVars, validVars, pollerVars, pollVars>>

\* searchWithFilters(queryVector, {documentId, minScore}, {}) -> searchSimilar
\* with the default limit 10; it may run between two upserts of a storeChunks
\* call
SearchWithFilters ==
  /\ \E d \in Docs, minScore \in MinScoreChoices, limit \in {10},
        ok \in BOOLEAN :
       lastSearch' =
         IF ok
           THEN [op |-> "searchWithFilters", documentId |-> d, topK |-> limit,
                 scoreThreshold |-> minScore, status |-> "ok",
                 results |-> qdrantSearch(points, d, limit, minScore),
                 during |-> writer]
           ELSE [op |-> "searchWithFilters", status |-> "error",
                 results |-> <<>>]
  /\ UNCHANGED <<points, vsMockMode, lexicalHits, lastWrite>>
  /\ UNCHANGED storeVars
  /\ UNCHANGED <<chunkVars, embedVars, quizVars, callVars, uploadVars, routeVars, pipeVars, cleanVars, validVars, pollerVars, pollVars>>

NextStore ==
  \/ StoreChunksBegin
  \/ UpsertBatch
  \/ StoreChunksReturn
  \/ DeleteDocument
  \/ SearchWithFilters

SpecStore == InitStore /\ [][NextStore]_vars

\* ------------------------------------------------------ SpecStore: claims

\* the point ids a search returned
SeenIds == { lastSearch.results[k].id : k \in 1..Len(lastSearch.results) }

\* C9: when storeChunks has returned for a document id, the index holds for
\* that document id exactly the points of that call.
C9_OnlyLatestRun ==
  \A d \in Docs :
    (lastWrite[d] = "stored" /\ (writer.pc = "upserting" => writer.doc # d)) =>
      pointsOfDoc(points, d) = latest[d]

\* C10: a search of document D that runs while a storeChunks call for D is
\* in progress and sees everything stored for D never finds all of D's old
\* points gone while the new points are not all there.
C10_NoTornRewrite ==
  (/\ lastSearch.op = "searchWithFilters"
   /\ lastSearch.status = "ok"
   /\ lastSearch.scoreThreshold = 0 /\ lastSearch.topK = 10
   /\ lastSearch.during.pc = "upserting"
   /\ lastSearch.during.doc = lastSearch.documentId
   /\ lastSearch.during.old # {}) =>
     ~ (/\ \A p \in lastSearch.during.old : p \notin points
        /\ \E p \in Range(lastSearch.during.pts) : p \notin points)

\* C11: when storeChunks fails after it has stored at least one batch and
\* reports the failure to its caller, the batch whose upsert failed has been
\* committed in full (the code re-issues no batch, so nothing else can make
\* it whole).
C11_FailedBatchCommitted ==
  (storeReport.status = "failed" /\ storeReport.at > 0) =>
    storeReport.committed = storeReport.batch

generalQueries ==
  << "important concepts and definitions", "key procedures and methods",
     "main principles and theories", "essential facts and information" >>

ResultIds   == {"c1", "c2", "c3"}
QuizTopK    == {1, 2, 5}
QuizQueries == {"", "q1"}

\* what one searchWithQuery call can return for the k-th query: at most
\* `limit` results with different ids, best first; the score a chunk gets
\* depends on the query
searchResults(k, limit) ==
  { [i \in 1..Len(ids) |-> [id |-> ids[i], score |-> 95 - 10 * k - i]] :
      ids \in { r \in SeqsUpTo(ResultIds, Min(limit, Cardinality(ResultIds))) :
                  \A i, j \in 1..Len(r) : i # j => r[i] # r[j] } }

\* mutant of removeLoop: the check against `seen` is lost
RECURSIVE removeLoopKeepAll(_, _, _, _)
removeLoopKeepAll(chunks, k, seen, kept) ==
  IF k > Len(chunks) THEN kept
  ELSE removeLoopKeepAll(chunks, k + 1, seen \cup {chunks[k].id},
                         Append(kept, chunks[k]))

\* mutant of _removeDuplicateChunks
removeDuplicateChunksKeepAll(chunks) == removeLoopKeepAll(chunks, 1, {}, <<>>)

\* the filter callback of _removeDuplicateChunks with its Set `seen`
RECURSIVE removeLoop(_, _, _, _)
removeLoop(chunks, k, seen, kept) ==
  IF k > Len(chunks) THEN kept
  ELSE IF chunks[k].id \in seen
    THEN removeLoop(chunks, k + 1, seen, kept)
  ELSE removeLoop(chunks, k + 1, seen \cup {chunks[k].id}, Append(kept, chunks[k]))

_removeDuplicateChunks(chunks) == removeLoop(chunks, 1, {}, <<>>)

\* arr.slice(0, n)
sliceFirst(arr, n) == SubSeq(arr, 1, Min(n, Len(arr)))

InitQuiz ==
  /\ ChunkIdle /\ EmbedIdle /\ SearchIdle /\ StoreIdle /\ CallIdle /\ UploadIdle /\ RouteIdle /\ PipeIdle /\ CleanIdle /\ ValidIdle /\ PollerIdle /\ PollIdle
  /\ customQuery \in QuizQueries
  /\ qTopK \in QuizTopK
  /\ qpc = "ready" /\ qProbe = 0
  /\ allChunks = <<>> /\ relevantChunks = <<>>

\* _getRelevantContent with a custom query: one searchWithQuery call
CustomQuerySearch ==
  /\ qpc = "ready" /\ customQuery # ""
  /\ \E ok \in BOOLEAN :
       IF ok
         THEN /\ \E r \in searchResults(0, qTopK) : relevantChunks' = r
              /\ qpc' = "done"
         ELSE /\ qpc' = "error"
              /\ UNCHANGED relevantChunks
  /\ UNCHANGED <<customQuery, qTopK, qProbe, allChunks>>
  /\ UNCHANGED <<chunkVars, embedVars, searchVars, storeVars, callVars, uploadVars, routeVars, pipeVars, cleanVars, validVars, pollerVars, pollVars>>

\* one turn of the loop over generalQueries: searchWithQuery(query,
\* documentId, Math.ceil(topK / generalQueries.length)), pushed onto allChunks
GeneralQuerySearch ==
  /\ qpc \in {"ready", "probing"} /\ customQuery = ""
  /\ qProbe < Len(generalQueries)
  /\ \E ok \in BOOLEAN :
       IF ok
         THEN /\ \E r \in searchResults(qProbe + 1,
                                        CeilDiv(qTopK, Len(generalQueries))) :
                   allChunks' = allChunks \o r
              /\ qProbe' = qProbe + 1
              /\ qpc' = "probing"
         ELSE /\ qpc' = "error"
              /\ UNCHANGED <<qProbe, allChunks>>
  /\ UNCHANGED <<customQuery, qTopK, relevantChunks>>
  /\ UNCHANGED <<chunkVars, embedVars, searchVars, storeVars, callVars, uploadVars, routeVars, pipeVars, cleanVars, validVars, pollerVars, pollVars>>

\* after the loop: _removeDuplicateChunks(allChunks).slice(0, topK)
ReturnUniqueChunks ==
  /\ qpc = "probing" /\ qProbe = Len(generalQueries)
  /\ relevantChunks' = sliceFirst(_removeDuplicateChunks(allChunks), qTopK)
  /\ qpc' = "done"
  /\ UNCHANGED <<customQuery, qTopK, qProbe, allChunks>>
  /\ UNCHANGED <<chunkVars, embedVars, searchVars, storeVars, callVars, uploadVars, routeVars, pipeVars, cleanVars, validVars, pollerVars, pollVars>>

NextQuiz ==
  \/ CustomQuerySearch
  \/ GeneralQuerySearch
  \/ ReturnUniqueChunks

SpecQuiz == InitQuiz /\ [][NextQuiz]_vars

\* ------------------------------------------------------- SpecQuiz: claims

\* the positions of allChunks that hold the first entry with their id
FirstPositions ==
  { i \in 1..Len(allChunks) : \A j \in 1..(i - 1) : allChunks[j].id # allChunks[i].id }

ClientKinds == {"qdrant", "openai"}

InitCall ==
  /\ ChunkIdle /\ EmbedIdle /\ SearchIdle /\ StoreIdle /\ QuizIdle /\ UploadIdle /\ RouteIdle /\ PipeIdle /\ CleanIdle /\ ValidIdle /\ PollerIdle /\ PollIdle
  /\ calls = [c \in CallIds |-> NoCall]

\* executePythonScript up to the return of the executor function
ExecutePythonScript ==
  /\ \E c \in CallIds, scriptExists \in BOOLEAN :
       /\ calls[c].state = "idle"
       /\ calls' = [calls EXCEPT ![c] =
            IF scriptExists
              THEN [kind |-> "python", state |-> "pending", error |-> "none",
                    timer |-> "armed", child |-> "running"]
              ELSE [kind |-> "python", state |-> "rejected", error |-> "notfound",
                    timer |-> "none", child |-> "none"]]
  /\ UNCHANGED <<chunkVars, embedVars, searchVars, storeVars, quizVars, uploadVars, routeVars, pipeVars, cleanVars, validVars, pollerVars, pollVars>>

\* pythonProcess.on('close'): resolve on exit code 0, reject otherwise; on a
\* settled promise resolve and reject do nothing
PythonProcessCloses ==
  /\ \E c \in CallIds, code \in {0, 1} :
       /\ calls[c].child \in {"running", "killed"}
       /\ calls' = [calls EXCEPT ![c] =
            IF calls[c].state # "pending"
              THEN [@ EXCEPT !.child = "exited"]
            ELSE IF code = 0 /\ calls[c].child = "running"
              THEN [@ EXCEPT !.child = "exited", !.state = "resolved"]
            ELSE [@ EXCEPT !.child = "exited", !.state = "rejected",
                           !.error = "provider"]]
  /\ UNCHANGED <<chunkVars, embedVars, searchVars, storeVars, quizVars, uploadVars, routeVars, pipeVars, cleanVars, validVars, pollerVars, pollVars>>

\* pythonProcess.on('error'): the process could not be started
PythonProcessError ==
  /\ \E c \in CallIds :
       /\ calls[c].child = "running" /\ calls[c].state = "pending"
       /\ calls' = [calls EXCEPT ![c] =
            [@ EXCEPT !.child = "exited", !.state = "rejected", !.error = "provider"]]
  /\ UNCHANGED <<chunkVars, embedVars, searchVars, storeVars, quizVars, uploadVars, routeVars, pipeVars, cleanVars, validVars, pollerVars, pollVars>>

\* the setTimeout callback: pythonProcess.kill(), reject('Python script
\* execution timeout'); the timer is never cleared, so it also fires after
\* the promise has settled
TimeoutFires ==
  /\ \E c \in CallIds :
       /\ calls[c].timer = "armed"
       /\ calls' = [calls EXCEPT ![c] =
            [@ EXCEPT !.timer = "fired",
                      !.child = IF @ = "running" THEN "killed" ELSE @,
                      !.state = IF @ = "pending" THEN "rejected" ELSE @,
                      !.error = IF calls[c].state = "pending" THEN "timeout" ELSE @]]
  /\ UNCHANGED <<chunkVars, embedVars, searchVars, storeVars, quizVars, uploadVars, routeVars, pipeVars, cleanVars, validVars, pollerVars, pollVars>>

\* searchSimilar / createEmbeddings up to their await
ClientCall ==
  /\ \E c \in CallIds, kind \in ClientKinds :
       /\ calls[c].state = "idle"
       /\ calls' = [calls EXCEPT ![c] =
            [kind |-> kind, state |-> "pending", error |-> "none",
             timer |-> "none", child |-> "none"]]
  /\ UNCHANGED <<chunkVars, embedVars, searchVars, storeVars, quizVars, uploadVars, routeVars, pipeVars, cleanVars, validVars, pollerVars, pollVars>>

\* the service answers the client: a result, or an error that the catch
\* block logs and rethrows
ClientAnswers ==
  /\ \E c \in CallIds, ok \in BOOLEAN :
       /\ calls[c].kind \in ClientKinds /\ calls[c].state = "pending"
       /\ calls' = [calls EXCEPT ![c] =
            IF ok THEN [@ EXCEPT !.state = "resolved"]
                  ELSE [@ EXCEPT !.state = "rejected", !.error = "provider"]]
  /\ UNCHANGED <<chunkVars, embedVars, searchVars, storeVars, quizVars, uploadVars, routeVars, pipeVars, cleanVars, validVars, pollerVars, pollVars>>

NextCall ==
  \/ ExecutePythonScript
  \/ PythonProcessCloses
  \/ PythonProcessError
  \/ TimeoutFires
  \/ ClientCall
  \/ ClientAnswers

\* The event loop runs every timer that is due; whether a child process or a
\* remote service ever answers is not in the program's hands.
SpecCall == InitCall /\ [][NextCall]_vars /\ WF_vars(TimeoutFires)

\* ------------------------------------------------------- SpecCall: claims

\* C18: every call to an external service that is pending is settled in the
\* end, whether the service answers or not, and a call rejected by the timer
\* carries the error "timeout", which no answer of the service produces.
C18_EveryCallTimesOut ==
  \A c \in CallIds : [](calls[c].state = "pending" => <>(calls[c].state # "pending"))

\* ------------------------------------ upload and status query (SpecUpload)
\* uploadPdf answers at once and lets processPdf run in the background;
\* processPDFComplete runs extraction, embedding and storing in turn and
\* turns every error into { success: false, error }.

Stages == <<"extracting", "embedding", "storing">>

\* error.message of the failure of each stage
stageError(stage) ==
  CASE stage = "extracting" -> "PDF processing failed"
    [] stage = "embedding"  -> "Batch embedding generation failed"
    [] stage = "storing"    -> "Failed to store chunks in vector database"

nextStage(stage) ==
  CASE stage = "extracting" -> "embedding"
    [] stage = "embedding"  -> "storing"
    [] stage = "storing"    -> "completed"

InitUpload ==
  /\ ChunkIdle /\ EmbedIdle /\ SearchIdle /\ StoreIdle /\ QuizIdle /\ CallIdle /\ RouteIdle /\ PipeIdle /\ CleanIdle /\ ValidIdle /\ PollerIdle /\ PollIdle
  /\ jobs = [u \in UploadIds |-> NoJob]
  /\ statusReply = NoReply

\* uploadPdf: a fresh documentId, processPdf(documentId, path) not awaited;
\* the document record is built and never saved
uploadPdf ==
  /\ \E u \in UploadIds :
       /\ jobs[u].stage = "none"
       /\ jobs' = [jobs EXCEPT ![u] = [stage |-> Stages[1], logged |-> "none"]]
  /\ UNCHANGED statusReply
  /\ UNCHANGED <<chunkVars, embedVars, searchVars, storeVars, quizVars, callVars, routeVars, pipeVars, cleanVars, validVars, pollerVars, pollVars>>

\* one awaited stage of processPDFComplete: it succeeds, or it fails and the
\* catch returns { success: false, error }, which processPdf writes to the
\* console and nowhere else
processPDFComplete ==
  /\ \E u \in UploadIds, ok \in BOOLEAN :
       /\ jobs[u].stage \in {"extracting", "embedding", "storing"}
       /\ jobs' = [jobs EXCEPT ![u] =
            IF ok THEN [stage |-> nextStage(jobs[u].stage), logged |-> "none"]
                  ELSE [stage |-> "failed", logged |-> stageError(jobs[u].stage)]]
  /\ UNCHANGED statusReply
  /\ UNCHANGED <<chunkVars, embedVars, searchVars, storeVars, quizVars, callVars, routeVars, pipeVars, cleanVars, validVars, pollerVars, pollVars>>

\* getProcessingStatus(documentId): 'completed' whenever getCollectionInfo
\* answers, 'error' with its message when it throws; runStage notes where the
\* document's run stood when the query was answered
getProcessingStatus ==
  /\ \E u \in UploadIds, infoOk \in BOOLEAN :
       statusReply' =
         IF infoOk
           THEN [documentId |-> u, status |-> "completed", progress |-> 100,
                 runStage |-> jobs[u].stage]
           ELSE [documentId |-> u, status |-> "error",
                 error |-> "Failed to get collection info",
                 runStage |-> jobs[u].stage]
  /\ UNCHANGED jobs
  /\ UNCHANGED <<chunkVars, embedVars, searchVars, storeVars, quizVars, callVars, routeVars, pipeVars, cleanVars, validVars, pollerVars, pollVars>>

NextUpload ==
  \/ uploadPdf
  \/ processPDFComplete
  \/ getProcessingStatus

SpecUpload == InitUpload /\ [][NextUpload]_vars

\* ----------------------------------------------------- SpecUpload: claims

\* C19: a status query for a document whose background processing run has
\* failed reports the status "failed" together with the reason of the failure.
C19_FailureRecorded ==
  (/\ statusReply.status # "none"
   /\ jobs[statusReply.documentId].stage = "failed") =>
     /\ statusReply.status = "failed"
     /\ "error" \in DOMAIN statusReply
     /\ statusReply.error = jobs[statusReply.documentId].logged

\* ------------------------------------- page numbers of a long document (SpecPages)
\* Two headed sections of a document of 1, 2, 14 or 30 pages.
LongPageCounts == {1, 2, 14, 30}

InitPages ==
  /\ EmbedIdle /\ SearchIdle /\ StoreIdle /\ QuizIdle /\ CallIdle /\ UploadIdle /\ RouteIdle /\ PipeIdle /\ CleanIdle /\ ValidIdle /\ PollerIdle /\ PollIdle
  /\ chunkConfig = [maxTokens |-> 50, minTokens |-> 10, overlap |-> 0]
  /\ \E p1 \in ParagraphsOf("header"), p2 \in ParagraphsOf("header") :
       text = numbered(p1 \o p2)
  /\ pageCount \in LongPageCounts
  /\ cpc = "start"
  /\ initialChunks = <<>> /\ optimizedChunks = <<>> /\ chunksWithMetadata = <<>>
  /\ now = 0 /\ runNo = "first" /\ firstRun = <<>>

SpecPages == InitPages /\ [][NextChunk]_vars

\* C20: the page number of every returned chunk is
\* ceil(index * tokenCount / (total tokens / pageCount)) brought into
\* [1, pageCount], an integer between 1 and pageCount.
C20_PageNumberFormula ==
  cpc = "done" =>
    \A i \in 1..Len(chunksWithMetadata) :
      LET c     == chunksWithMetadata[i]
          total == SumTokens(optimizedChunks)
          exact == CeilDiv(c.index * c.tokenCount * pageCount, total)
      IN  /\ c.pageNumber \in 1..pageCount
          /\ c.pageNumber = Max(1, Min(exact, pageCount))

\* C23: a status query answered while the document's run is still extracting,
\* embedding or storing never reports "completed".
C23_CompletedOnlyAfterRun ==
  (/\ statusReply.status # "none"
   /\ statusReply.runStage \in {"extracting", "embedding", "storing"}) =>
     statusReply.status # "completed"

\* ------------------------------------------- the quiz router (SpecRoute)
\* router.METHOD(path, handler) appends a layer; a request goes to the first
\* layer whose method and path match.  A path is its sequence of segments
\* below /api/quiz; the segment ":id" of a pattern matches any one segment.

quizRoutes ==
  << [method |-> "POST",   pattern |-> <<"generate">>,      handler |-> "generateQuiz"],
     [method |-> "GET",    pattern |-> <<":id">>,           handler |-> "getQuiz"],
     [method |-> "POST",   pattern |-> <<":id", "submit">>, handler |-> "submitQuiz"],
     [method |-> "GET",    pattern |-> <<"saved">>,         handler |-> "getSavedQuizzes"],
     [method |-> "DELETE", pattern |-> <<":id">>,           handler |-> "deleteQuiz"] >>

\* path-to-regexp: segment by segment, a parameter takes any segment
matchPath(pattern, path) ==
  /\ Len(pattern) = Len(path)
  /\ \A i \in 1..Len(pattern) : pattern[i] = ":id" \/ pattern[i] = path[i]

layerMatches(layer, method, path) ==
  layer.method = method /\ matchPath(layer.pattern, path)

\* Router.handle: the first matching layer runs; every handler of the quiz
\* controller answers the request itself and none calls next()
dispatchIn(routes, method, path) ==
  LET hits == { i \in 1..Len(routes) : layerMatches(routes[i], method, path) }
  IN  IF hits = {} THEN "notFound"
      ELSE routes[CHOOSE i \in hits : \A j \in hits : i <= j].handler

dispatch(method, path) == dispatchIn(quizRoutes, method, path)

Methods == {"GET", "POST", "DELETE"}

Segments == {"generate", "saved", "submit", "quiz_1"}

Paths == { <<a>> : a \in Segments } \cup { <<a, "submit">> : a \in Segments }

InitRoute ==
  /\ ChunkIdle /\ EmbedIdle /\ SearchIdle /\ StoreIdle /\ QuizIdle /\ CallIdle /\ UploadIdle /\ PipeIdle /\ CleanIdle /\ ValidIdle /\ PollerIdle /\ PollIdle
  /\ served = <<>>

\* one request to /api/quiz/...
HandleRequest ==
  /\ Len(served) < MaxRequests
  /\ \E method \in Methods, path \in Paths :
       served' = Append(served, [method |-> method, path |-> path,
                                 handler |-> dispatch(method, path)])
  /\ UNCHANGED <<chunkVars, embedVars, searchVars, storeVars, quizVars, callVars, uploadVars, pipeVars, cleanVars, validVars, pollerVars, pollVars>>

NextRoute ==
  \/ HandleRequest

SpecRoute == InitRoute /\ [][NextRoute]_vars

\* ------------------------------------------------------ SpecRoute: claims

\* C21: every GET request to /api/quiz/saved is handled by getSavedQuizzes.
C21_SavedGoesToListing ==
  \A i \in 1..Len(served) :
    (served[i].method = "GET" /\ served[i].path = <<"saved">>) =>
      served[i].handler = "getSavedQuizzes"

\* C28: a step of storeChunks or deleteDocument changes the stored points of
\* no document but its own: an upsert those of the document being stored, a
\* delete those of the document it names.
C28_OtherDocumentsUntouched ==
  [][\A d \in Docs :
       pointsOfDoc(points', d) # pointsOfDoc(points, d) =>
         IF writer' # writer
           THEN writer.pc = "upserting" /\ writer.doc = d
           ELSE lastWrite[d] # "deleted" /\ lastWrite'[d] = "deleted"]_vars

\* C28 witness: one document has been stored and deleted while the other
\* one's points are in the collection
C28_Witness ==
  \E d \in Docs, e \in Docs :
    /\ d # e
    /\ pointsOfDoc(points, d) # {}
    /\ lastWrite[d] = "stored"
    /\ lastWrite[e] = "deleted" /\ latest[e] # {}

\* ------------------------------------- processPDFComplete (SpecPipeline)
\* The pipeline of PDFProcessingService with the python-bridge services:
\* pdfProcessor.processPdf, embeddingService.generateChunkEmbeddings,
\* vectorSearchService.storeChunkEmbeddings, each awaited in turn inside
\* one try block.

\* executePythonScript('embedding_service/embedding_generator.py') for one
\* chunk: a result with an embedding, a result without one (exit code 0 and
\* output that is not JSON, or JSON with neither `embedding` nor `error`),
\* or a rejection / a result with `error`
EmbeddingOutcomes == {"vector", "undefined", "throw"}

\* executePythonScript('vector_search/store_chunks.py'): the promise rejects,
\* or resolves to the parsed output, or to { output, raw: true }
StoreReplies ==
  { [kind |-> "reject"],
    [kind |-> "raw"],
    [kind |-> "json", success |-> TRUE,  error |-> ""],
    [kind |-> "json", success |-> FALSE, error |-> ""],
    [kind |-> "json", success |-> FALSE, error |-> "store failed"] }

\* result.error
replyError(reply) == IF reply.kind = "json" THEN reply.error ELSE ""

\* result.success
replySuccess(reply) == reply.kind = "json" /\ reply.success

\* `return result.success || true`
storeReturnValue(reply) == replySuccess(reply) \/ TRUE

\* chunks.filter(chunk => chunk.embedding)
chunksWithEmbeddings(chunks) == { i \in DOMAIN chunks : chunks[i] = "vector" }

failed(message) == [success |-> FALSE, error |-> message]

InitPipeline ==
  /\ ChunkIdle /\ EmbedIdle /\ SearchIdle /\ StoreIdle /\ QuizIdle /\ CallIdle /\ UploadIdle /\ RouteIdle /\ CleanIdle /\ ValidIdle /\ PollerIdle /\ PollIdle
  /\ ppc = "start" /\ pchunks = <<>> /\ scriptReply = NoReplyYet
  /\ vectorStore = {} /\ pipeResult = NoPipeResult

\* step 1: pdfProcessor.processPdf returns { success: true, chunks } or throws
pipelineProcessPdf ==
  /\ ppc = "start"
  /\ \E ok \in BOOLEAN, n \in 1..MaxPipeChunks :
       IF ok
         THEN /\ pchunks' = [i \in 1..n |-> "pending"]
              /\ ppc' = "extracted"
              /\ UNCHANGED pipeResult
         ELSE /\ pipeResult' = failed("PDF processing pipeline failed")
              /\ ppc' = "returned"
              /\ UNCHANGED pchunks
  /\ UNCHANGED <<scriptReply, vectorStore>>
  /\ UNCHANGED <<chunkVars, embedVars, searchVars, storeVars, quizVars, callVars, uploadVars, routeVars, cleanVars, validVars, pollerVars, pollVars>>

\* step 2: generateChunkEmbeddings sets chunk.embedding = result.embedding
\* for every chunk, and throws when one generateEmbedding call throws
generateChunkEmbeddings ==
  /\ ppc = "extracted"
  /\ \E outcome \in [DOMAIN pchunks -> EmbeddingOutcomes] :
       IF \E i \in DOMAIN pchunks : outcome[i] = "throw"
         THEN /\ pipeResult' = failed("Batch embedding generation failed")
              /\ ppc' = "returned"
              /\ UNCHANGED pchunks
         ELSE /\ pchunks' = outcome
              /\ ppc' = "embedded"
              /\ UNCHANGED pipeResult
  /\ UNCHANGED <<scriptReply, vectorStore>>
  /\ UNCHANGED <<chunkVars, embedVars, searchVars, storeVars, quizVars, callVars, uploadVars, routeVars, cleanVars, validVars, pollerVars, pollVars>>

\* step 3 and the return: storeChunkEmbeddings sends the chunks that have an
\* embedding; a script that answers success has written them, any other
\* answer leaves them written or not
storeChunkEmbeddings ==
  /\ ppc = "embedded"
  /\ LET sent == chunksWithEmbeddings(pchunks)
     IN  IF sent = {}
           THEN /\ pipeResult' = failed("No chunks with embeddings to store")
                /\ UNCHANGED <<scriptReply, vectorStore>>
           ELSE \E reply \in StoreReplies, done \in {{}, sent} :
                  /\ replySuccess(reply) => done = sent
                  /\ scriptReply' = reply
                  /\ vectorStore' = done
                  /\ pipeResult' =
                       IF reply.kind = "reject"
                         THEN failed("Failed to store chunk embeddings")
                       ELSE IF replyError(reply) # ""
                         THEN failed(replyError(reply))
                       ELSE IF ~ storeReturnValue(reply)
                         THEN failed("Failed to store chunks in vector database")
                       ELSE [success |-> TRUE, chunkCount |-> Len(pchunks)]
  /\ ppc' = "returned"
  /\ UNCHANGED pchunks
  /\ UNCHANGED <<chunkVars, embedVars, searchVars, storeVars, quizVars, callVars, uploadVars, routeVars, cleanVars, validVars, pollerVars, pollVars>>

NextPipeline ==
  \/ pipelineProcessPdf
  \/ generateChunkEmbeddings
  \/ storeChunkEmbeddings

SpecPipeline == InitPipeline /\ [][NextPipeline]_vars

\* --------------------------------------------------- SpecPipeline: claims

\* C22: processPDFComplete returns success: true only when the store script
\* answered that the chunks were stored.
C22_SuccessOnlyIfStored ==
  (ppc = "returned" /\ pipeResult.success = TRUE) => replySuccess(scriptReply)

\* C26: the vector database holds chunks of the document only if every chunk
\* of the document got its embedding.
C26_StoredOnlyAfterAllEmbedded ==
  vectorStore # {} => \A i \in DOMAIN pchunks : pchunks[i] = "vector"

\* ------------------------------------------ basic text cleaning (SpecClean)
\* A text is the sequence of its characters.  Every replace of
\* basicTextCleaning is a left-to-right, non-overlapping, greedy replacement.

Whitespace == {" ", "\t", "\n", "\r", "\f"}       \* \s on the characters used
Punctuation == {",", ".", ";", ":", "!", "?"}
Lowercase == {"a"}
Uppercase == {"B"}
Digits == {"1"}
WordChars == Lowercase \cup Uppercase \cup Digits

\* the three characters that the source writes for a bullet
BulletChars == <<"0xE2", "0x20AC", "0xA2">>

Chars == {"a", "B", "1", ".", " ", "\t", "\n", "\r", "\f"}

\* the index of the last character of the run of `set` that starts at i
\* (i - 1 when s[i] is not in the set)
RECURSIVE runEnd(_, _, _)
runEnd(s, i, set) ==
  IF i <= Len(s) /\ s[i] \in set THEN runEnd(s, i + 1, set) ELSE i - 1

from(s, i) == SubSeq(s, i, Len(s))

\* .replace(/\f/g, '')
removeFormFeeds(s) == SelectSeq(s, LAMBDA c : c # "\f")

\* .replace(/\r\n|\r/g, '\n')
RECURSIVE normalizeLineEndings(_)
normalizeLineEndings(s) ==
  IF s = <<>> THEN <<>>
  ELSE IF s[1] = "\r"
    THEN IF Len(s) >= 2 /\ s[2] = "\n"
           THEN <<"\n">> \o normalizeLineEndings(from(s, 3))
           ELSE <<"\n">> \o normalizeLineEndings(Tail(s))
  ELSE <<s[1]>> \o normalizeLineEndings(Tail(s))

\* .replace(/[set]+/g, ' ')
RECURSIVE collapseRuns(_, _)
collapseRuns(s, set) ==
  IF s = <<>> THEN <<>>
  ELSE IF s[1] \in set
    THEN <<" ">> \o collapseRuns(from(s, runEnd(s, 1, set) + 1), set)
  ELSE <<s[1]>> \o collapseRuns(Tail(s), set)

\* .replace(/\n{3,}/g, '\n\n')
RECURSIVE normalizeBlankLines(_)
normalizeBlankLines(s) ==
  IF s = <<>> THEN <<>>
  ELSE IF s[1] = "\n"
    THEN LET e == runEnd(s, 1, {"\n"})
         IN  (IF e >= 3 THEN <<"\n", "\n">> ELSE SubSeq(s, 1, e))
               \o normalizeBlankLines(from(s, e + 1))
  ELSE <<s[1]>> \o normalizeBlankLines(Tail(s))

\* .replace(/<bullet>/g, '- ')
RECURSIVE replaceBullets(_)
replaceBullets(s) ==
  IF s = <<>> THEN <<>>
  ELSE IF Len(s) >= 3 /\ SubSeq(s, 1, 3) = BulletChars
    THEN <<"-", " ">> \o replaceBullets(from(s, 4))
  ELSE <<s[1]>> \o replaceBullets(Tail(s))

\* .replace(/\b(\d+)\s*\.\s*(\d+)\b/g, '$1.$2'): `prev` is the character
\* before s (a word boundary needs a non-word character there)
RECURSIVE fixSplitNumbers(_, _)
fixSplitNumbers(s, prev) ==
  IF s = <<>> THEN <<>>
  ELSE
    LET d1 == runEnd(s, 1, Digits)
        w1 == runEnd(s, d1 + 1, Whitespace)
        w2 == runEnd(s, w1 + 2, Whitespace)
        d2 == runEnd(s, w2 + 1, Digits)
        hit == /\ s[1] \in Digits /\ prev \notin WordChars
               /\ w1 + 1 <= Len(s) /\ s[w1 + 1] = "."
               /\ d2 > w2
               /\ (d2 = Len(s) \/ s[d2 + 1] \notin WordChars)
    IN  IF hit
          THEN SubSeq(s, 1, d1) \o <<".">> \o SubSeq(s, w2 + 1, d2)
                 \o fixSplitNumbers(from(s, d2 + 1), s[d2])
          ELSE <<s[1]>> \o fixSplitNumbers(Tail(s), s[1])

\* .replace(/([a-z])([A-Z])/g, '$1 $2')
RECURSIVE spaceLowerUpper(_)
spaceLowerUpper(s) ==
  IF s = <<>> THEN <<>>
  ELSE IF Len(s) >= 2 /\ s[1] \in Lowercase /\ s[2] \in Uppercase
    THEN <<s[1], " ", s[2]>> \o spaceLowerUpper(from(s, 3))
  ELSE <<s[1]>> \o spaceLowerUpper(Tail(s))

\* .replace(/\s+([,.;:!?])/g, '$1')
RECURSIVE removeSpaceBeforePunctuation(_)
removeSpaceBeforePunctuation(s) ==
  IF s = <<>> THEN <<>>
  ELSE IF s[1] \in Whitespace
    THEN LET e == runEnd(s, 1, Whitespace)
         IN  IF e < Len(s) /\ s[e + 1] \in Punctuation
               THEN <<s[e + 1]>> \o removeSpaceBeforePunctuation(from(s, e + 2))
               ELSE SubSeq(s, 1, e) \o removeSpaceBeforePunctuation(from(s, e + 1))
  ELSE <<s[1]>> \o removeSpaceBeforePunctuation(Tail(s))

\* .replace(/([,.;:!?])\s+/g, '$1 ')
RECURSIVE spaceAfterPunctuation(_)
spaceAfterPunctuation(s) ==
  IF s = <<>> THEN <<>>
  ELSE IF s[1] \in Punctuation /\ Len(s) >= 2 /\ s[2] \in Whitespace
    THEN <<s[1], " ">> \o spaceAfterPunctuation(from(s, runEnd(s, 2, Whitespace) + 1))
  ELSE <<s[1]>> \o spaceAfterPunctuation(Tail(s))

\* .trim()
RECURSIVE trimEnd(_)
trimEnd(s) ==
  IF s # <<>> /\ s[Len(s)] \in Whitespace THEN trimEnd(SubSeq(s, 1, Len(s) - 1)) ELSE s

trim(s) == trimEnd(from(s, runEnd(s, 1, Whitespace) + 1))

\* basicTextCleaning, replace by replace
basicTextCleaning(rawChars) ==
  IF rawChars = <<>> THEN <<>>
  ELSE
    LET s1 == removeFormFeeds(rawChars)
        s2 == normalizeLineEndings(s1)
        s3 == collapseRuns(s2, {" ", "\t"})
        s4 == normalizeBlankLines(s3)
        s5 == replaceBullets(s4)
        s6 == fixSplitNumbers(s5, " ")
        s7 == spaceLowerUpper(s6)
        s8 == removeSpaceBeforePunctuation(s7)
        s9 == spaceAfterPunctuation(s8)
    IN  collapseRuns(trim(s9), Whitespace)

\* text.split(/\n\s*\n/) followed by the `!paragraph.trim()` test of
\* semanticChunking: the number of paragraphs that are not blank.  Two
\* neighbouring visible characters lie in different paragraphs when the
\* whitespace between them holds two line feeds.
visible(s) == { i \in 1..Len(s) : s[i] \notin Whitespace }

paragraphBreakAfter(s, i) ==
  LET e == runEnd(s, i + 1, Whitespace)
  IN  /\ e < Len(s)
      /\ Cardinality({ j \in (i + 1)..e : s[j] = "\n" }) >= 2

paragraphCount(s) ==
  IF visible(s) = {} THEN 0
  ELSE 1 + Cardinality({ i \in visible(s) : paragraphBreakAfter(s, i) })

InitClean ==
  /\ ChunkIdle /\ EmbedIdle /\ SearchIdle /\ StoreIdle /\ QuizIdle /\ CallIdle /\ UploadIdle /\ RouteIdle /\ PipeIdle /\ ValidIdle /\ PollerIdle /\ PollIdle
  /\ rawText \in SeqsUpTo(Chars, MaxRawLen)
  /\ cleanedText = <<>>
  /\ cleanpc = "raw"

\* processText step 1 (the LLM correction is skipped when no LLM is available)
BasicTextCleaning ==
  /\ cleanpc = "raw"
  /\ cleanedText' = basicTextCleaning(rawText)
  /\ cleanpc' = "cleaned"
  /\ UNCHANGED rawText
  /\ UNCHANGED <<chunkVars, embedVars, searchVars, storeVars, quizVars, callVars, uploadVars, routeVars, pipeVars, validVars, pollerVars, pollVars>>

NextClean ==
  \/ BasicTextCleaning

SpecClean == InitClean /\ [][NextClean]_vars

\* ------------------------------------------------------ SpecClean: claims

\* C24: a raw text with two or more non-blank paragraphs has as many
\* paragraphs after cleaning as before.
C24_ParagraphsPreserved ==
  (cleanpc = "cleaned" /\ paragraphCount(rawText) >= 2) =>
    paragraphCount(cleanedText) = paragraphCount(rawText)

\* ---------------------------------------- question validation (SpecValidate)
\* A question as parseQuestionResponse builds it: `length` is
\* question.question.length (0 when the field is missing), `options` is
\* options.length (0 for null), correctAnswer is the parsed JSON value.

quizTypes == {"multiple_choice", "true_false", "short_answer"}

AnswerValues ==
  { [kind |-> "undefined", text |-> ""],
    [kind |-> "boolean",   text |-> "true"],
    [kind |-> "boolean",   text |-> "false"],
    [kind |-> "string",    text |-> "B"],
    [kind |-> "string",    text |-> ""] }

QuestionLengths == {0, 9, 10}

OptionCounts == {0, 3, 4}

GeneratedQuestions ==
  [type : quizTypes, length : QuestionLengths,
   correctAnswer : AnswerValues, options : OptionCounts]

\* JavaScript truthiness of a parsed JSON value
truthy(value) ==
  CASE value.kind = "undefined" -> FALSE
    [] value.kind = "boolean"   -> value.text = "true"
    [] value.kind = "string"    -> value.text # ""

isValidQuestion(question) ==
  IF question.length = 0 \/ question.length < 10 THEN FALSE
  ELSE IF ~ truthy(question.correctAnswer) THEN FALSE
  ELSE IF question.type = "multiple_choice"
            /\ (question.options = 0 \/ question.options # 4) THEN FALSE
  ELSE TRUE

\* validateQuestionWithLLM returns true
validateQuestions(qs) == SelectSeq(qs, isValidQuestion)

InitValidate ==
  /\ ChunkIdle /\ EmbedIdle /\ SearchIdle /\ StoreIdle /\ QuizIdle /\ CallIdle /\ UploadIdle /\ RouteIdle /\ PipeIdle /\ CleanIdle /\ PollerIdle /\ PollIdle
  /\ questions \in { qs \in SeqsUpTo(GeneratedQuestions, MaxQuestions) : Len(qs) > 0 }
  /\ validQuestions = <<>>
  /\ vpc = "generated"

\* generateQuiz line 68
ValidateQuestions ==
  /\ vpc = "generated"
  /\ validQuestions' = validateQuestions(questions)
  /\ vpc' = "validated"
  /\ UNCHANGED questions
  /\ UNCHANGED <<chunkVars, embedVars, searchVars, storeVars, quizVars, callVars, uploadVars, routeVars, pipeVars, cleanVars, pollerVars, pollVars>>

NextValidate ==
  \/ ValidateQuestions

SpecValidate == InitValidate /\ [][NextValidate]_vars

\* --------------------------------------------------- SpecValidate: claims

\* C27: every generated question with a text of at least 10 characters, a
\* correct answer given by the model (either boolean for a true/false
\* question, a string that is not empty for the other types) and, if multiple
\* choice, exactly 4 options is among the validated questions.
C27_AcceptsWellFormed ==
  vpc = "validated" =>
    \A i \in 1..Len(questions) :
      LET q == questions[i]
      IN  (/\ q.length >= 10
           /\ IF q.type = "true_false"
                THEN q.correctAnswer.kind = "boolean"
                ELSE q.correctAnswer.kind = "string" /\ q.correctAnswer.text # ""
           /\ q.type = "multiple_choice" => q.options = 4) =>
            \E j \in 1..Len(validQuestions) : validQuestions[j] = q

\* ------------------------------- the ProcessingStatus component (SpecPoller)
\* checkStatus is the function of the render in which the effect ran; the
\* isPolling it reads is the value of that render, true, whatever
\* setIsPolling has been given since.

StatusValues == {"pending", "processing", "completed", "failed", "error"}

InitPoller ==
  /\ ChunkIdle /\ EmbedIdle /\ SearchIdle /\ StoreIdle /\ QuizIdle /\ CallIdle /\ UploadIdle /\ RouteIdle /\ PipeIdle /\ CleanIdle /\ ValidIdle /\ PollIdle
  /\ retryAttempt = 0 /\ retryCount = 0
  /\ polling = "scheduled" /\ stopReason = "none"      \* useEffect: checkStatus()
  /\ failStreak = 0 /\ statusRequests = 0 /\ shownStatus = "null"

\* checkStatus(retryAttempt), the request answered
checkStatusAnswered ==
  /\ polling = "scheduled"
  /\ statusRequests < MaxStatusRequests
  /\ \E status \in StatusValues :
       /\ shownStatus' = status
       /\ IF status = "completed"
            THEN polling' = "stopped" /\ stopReason' = "completed"
          ELSE IF status \in {"failed", "error"}
            THEN polling' = "stopped" /\ stopReason' = "processingFailed"
          ELSE polling' = "scheduled" /\ stopReason' = "none"
                 \* setTimeout(() => checkStatus(retryAttempt), 3000)
  /\ retryCount' = 0
  /\ failStreak' = 0
  /\ statusRequests' = statusRequests + 1
  /\ UNCHANGED retryAttempt
  /\ UNCHANGED <<chunkVars, embedVars, searchVars, storeVars, quizVars, callVars, uploadVars, routeVars, pipeVars, cleanVars, validVars, pollVars>>

\* checkStatus(retryAttempt), the request failed
checkStatusFailed ==
  /\ polling = "scheduled"
  /\ statusRequests < MaxStatusRequests
  /\ failStreak' = failStreak + 1
  /\ statusRequests' = statusRequests + 1
  /\ IF retryAttempt < 3
       THEN /\ retryCount' = retryAttempt + 1
            /\ retryAttempt' = retryAttempt + 1
                 \* setTimeout(() => checkStatus(retryAttempt + 1), delay)
            /\ polling' = "scheduled" /\ stopReason' = "none"
       ELSE /\ polling' = "stopped" /\ stopReason' = "requestFailures"
            /\ UNCHANGED <<retryAttempt, retryCount>>
  /\ UNCHANGED shownStatus
  /\ UNCHANGED <<chunkVars, embedVars, searchVars, storeVars, quizVars, callVars, uploadVars, routeVars, pipeVars, cleanVars, validVars, pollVars>>

\* the Retry button, shown while there is an error and no status yet
handleRetry ==
  /\ polling = "stopped" /\ stopReason = "requestFailures"
  /\ shownStatus = "null"
  /\ statusRequests < MaxStatusRequests
  /\ retryAttempt' = 0 /\ retryCount' = 0
  /\ polling' = "scheduled" /\ stopReason' = "none"
  /\ UNCHANGED <<failStreak, statusRequests, shownStatus>>
  /\ UNCHANGED <<chunkVars, embedVars, searchVars, storeVars, quizVars, callVars, uploadVars, routeVars, pipeVars, cleanVars, validVars, pollVars>>

NextPoller ==
  \/ checkStatusAnswered
  \/ checkStatusFailed
  \/ handleRetry

SpecPoller == InitPoller /\ [][NextPoller]_vars

\* ----------------------------------------------------- SpecPoller: claims

\* C29: when the component stops polling because of request failures, the
\* last four status requests have all failed.
C29_GivesUpAfterFourInARow ==
  (polling = "stopped" /\ stopReason = "requestFailures") => failStreak >= 4

\* ------------------------------------------ pollProcessingStatus (SpecPoll)
\* One call of apiUtils.pollProcessingStatus(documentId, onStatusUpdate,
\* maxAttempts); poll() calls itself after each wait.

\* mutant of attemptsExhausted: one more round before the timeout
attemptsExhaustedLate(n, limit) == n > limit

\* `attempts >= maxAttempts`
attemptsExhausted(n, limit) == n >= limit

\* `status.status === 'completed' || status.status === 'failed'`
isFinal(status) == status \in {"completed", "failed"}

InitPoll ==
  /\ ChunkIdle /\ EmbedIdle /\ SearchIdle /\ StoreIdle /\ QuizIdle /\ CallIdle /\ UploadIdle /\ RouteIdle /\ PipeIdle /\ CleanIdle /\ ValidIdle /\ PollerIdle
  /\ maxAttempts \in 0..MaxPollAttempts
  /\ attempts = 0 /\ pollRequests = 0
  /\ pollpc = "request" /\ pollResult = "none" /\ updates = "none"

\* poll(): getProcessingStatus answers; onStatusUpdate(status), then return,
\* throw the timeout error, or count the attempt and start the 2 s wait
pollAnswered ==
  /\ pollpc = "request"
  /\ \E status \in StatusValues :
       /\ updates' = status
       /\ IF isFinal(status)
            THEN /\ pollpc' = "returned" /\ pollResult' = status
                 /\ UNCHANGED attempts
          ELSE IF attemptsExhausted(attempts, maxAttempts)
            THEN /\ pollpc' = "thrown" /\ pollResult' = "timeout"
                 /\ UNCHANGED attempts
          ELSE /\ attempts' = attempts + 1
               /\ pollpc' = "waiting"
               /\ UNCHANGED pollResult
  /\ pollRequests' = pollRequests + 1
  /\ UNCHANGED maxAttempts
  /\ UNCHANGED <<chunkVars, embedVars, searchVars, storeVars, quizVars, callVars, uploadVars, routeVars, pipeVars, cleanVars, validVars, pollerVars>>

\* poll(): getProcessingStatus rejects (an error answer, no connection, or
\* the 60 s timeout of the axios instance); the catch rethrows
pollFailed ==
  /\ pollpc = "request"
  /\ pollpc' = "thrown" /\ pollResult' = "requestError"
  /\ pollRequests' = pollRequests + 1
  /\ UNCHANGED <<maxAttempts, attempts, updates>>
  /\ UNCHANGED <<chunkVars, embedVars, searchVars, storeVars, quizVars, callVars, uploadVars, routeVars, pipeVars, cleanVars, validVars, pollerVars>>

\* the 2 s timer fires: return poll()
pollAgain ==
  /\ pollpc = "waiting"
  /\ pollpc' = "request"
  /\ UNCHANGED <<maxAttempts, attempts, pollRequests, pollResult, updates>>
  /\ UNCHANGED <<chunkVars, embedVars, searchVars, storeVars, quizVars, callVars, uploadVars, routeVars, pipeVars, cleanVars, validVars, pollerVars>>

NextPoll ==
  \/ pollAnswered
  \/ pollFailed
  \/ pollAgain

\* Every request settles (the axios instance has timeout: 60000) and every
\* timer fires.
SpecPoll ==
  /\ InitPoll /\ [][NextPoll]_vars
  /\ WF_vars(pollAnswered \/ pollFailed)
  /\ WF_vars(pollAgain)

\* ------------------------------------------------------- SpecPoll: claims

\* C30: the call sends at most maxAttempts + 1 status requests, ends by
\* returning a status 'completed' or 'failed' or by throwing a request error
\* or the processing-timeout error, sends no request after that, and it
\* always ends.
C30_PollTerminates ==
  /\ [](pollRequests <= maxAttempts + 1)
  /\ [](pollpc = "returned" => pollResult \in {"completed", "failed"})
  /\ [](pollpc = "thrown" => pollResult \in {"requestError", "timeout"})
  /\ [][(pollpc \in {"returned", "thrown"}) => (pollRequests' = pollRequests)]_vars
  /\ <>(pollpc \in {"returned", "thrown"})

\* C30 witness: the call has used every attempt and thrown the timeout error
C30_Witness ==
  /\ maxAttempts >= 1
  /\ pollpc = "thrown" /\ pollResult = "timeout"
  /\ pollRequests = maxAttempts + 1

====
